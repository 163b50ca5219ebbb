------------------------------ MODULE AppLife ------------------------------
(***************************************************************************)
(* The life of one app: how it starts, runs its engines, and closes.       *)
(*                                                                         *)
(* The app's thread takes the tasks of its runloop in the order they were  *)
(* posted, all of those that are there before it looks at the sockets      *)
(* again.  An engine runs in a thread of its own, or by tasks in the app's *)
(* runloop.  The app has an endpoint, the clients that connected to it and *)
(* belong to no engine yet (orphans), and perhaps one ten_env_proxy.       *)
(*                                                                         *)
(* Of an engine only what the app sees is here: it is told to close, and   *)
(* some time later it has (GraphLifecycle says how).  How a client's       *)
(* connection moves to the thread of an engine is in Migration; here a     *)
(* client starts a graph only where the engine shares the app's thread.    *)
(***************************************************************************)
EXTENDS Naturals, Sequences, FiniteSets

CONSTANTS
    Engine,         \* the graphs that may be started, one engine each
    Client,         \* the clients that may connect
    AutoStart,      \* the graphs that the app starts by itself
    OwnLoops,       \* the values of one_event_loop_per_engine to look at
    LongRunnings,   \* the values of long_running_mode
    Endpoints,      \* whether the app has a uri to listen at
    CloseFrom,      \* the states in which another thread may call ten_app_close()
    MaxRequests     \* bound: how many commands the engines send

States == {"INIT", "ON_CONFIGURE", "ON_CONFIGURE_DONE", "ON_INIT", "ON_INIT_DONE",
           "CLOSING", "ON_DEINIT_DONE"}

ASSUME AppLifeAssumption ==
    /\ IsFiniteSet(Engine)
    /\ AutoStart \subseteq Engine
    /\ OwnLoops \subseteq BOOLEAN
    /\ LongRunnings \subseteq BOOLEAN
    /\ Endpoints \subseteq BOOLEAN
    /\ CloseFrom \subseteq States
    /\ MaxRequests \in Nat

VARIABLES
    config,         \* what the property.json and the code of the app say
    state,          \* TEN_APP_STATE
    user,           \* the callbacks of the app whose on_xxx_done() is still owed
    deinits,        \* how often on_deinit was called
    loop,           \* the app's runloop: running, stopping or stopped
    tasks,          \* the tasks in it
    draining,       \* the app's thread is amidst the tasks, and not looking at sockets
    in_msgs,        \* the app's in_msgs
    batch,          \* those that ten_app_handle_in_msgs_sync() has taken out
    engines,        \* the app's engines
    e_state,        \* per engine: none, running, closing, stopping (its runloop), closed
    e_tasks,        \* per engine with a thread of its own: the tasks of its runloop
    cmd_stop_graph, \* per engine: who sent the stop_graph command that it holds, or none
    endpoint,       \* none, listening, closing, closed
    client,         \* per client: none, accepted, orphan, left, closing, gone
    proxy,          \* the ten_env_proxy of the app: none, held, released, deleted
    requests,       \* how many commands were sent
    answered,       \* the graphs whose stop_graph command was answered
    told,           \* the close task has told everything to close
    late,           \* what was added to the app after that
    refused         \* what the app's runloop refused, and the posts assert that it takes

queues == <<tasks, draining, in_msgs, batch, refused>>
engs == <<engines, e_state, e_tasks, cmd_stop_graph>>
world == <<endpoint, client, proxy>>
life == <<state, user, deinits, loop>>
rest == <<config, requests, answered, told, late>>
vars == <<config, life, queues, engs, world, requests, answered, told, late>>

NoOne == "none"

\* ten_app_is_closing(): state >= TEN_APP_STATE_CLOSING.
IsClosing(s) == s \in {"CLOSING", "ON_DEINIT_DONE"}

\* orphan_connections.
Orphans == {c \in Client : client[c] \in {"orphan", "left", "closing"}}

\* The runloop of the engine e, if it has one, takes no more tasks.
Ended(e) == e_state[e] \in {"stopping", "closed"}

\* Faulty variants: the orphan connections, or the engines, are left out.
CouldBeCloseOrphaned == engines = {} /\ endpoint \in {"none", "closed"}
CouldBeCloseRunning == Orphans = {} /\ endpoint \in {"none", "closed"}

\* ten_app_could_be_close().
CouldBeClose == engines = {} /\ Orphans = {} /\ endpoint \in {"none", "closed"}

Init ==
    /\ config \in [own_loop : OwnLoops, long_running : LongRunnings, endpoint : Endpoints]
    /\ state = "INIT"
    /\ user = {}
    /\ deinits = 0
    /\ loop = "running"
    /\ tasks = <<<<"metadata">>>>
    /\ draining = FALSE
    /\ in_msgs = <<>>
    /\ batch = <<>>
    /\ engines = {}
    /\ e_state = [e \in Engine |-> "none"]
    /\ e_tasks = [e \in Engine |-> <<>>]
    /\ cmd_stop_graph = [e \in Engine |-> NoOne]
    /\ endpoint = "none"
    /\ client = [c \in Client |-> "none"]
    /\ proxy = "none"
    /\ requests = 0
    /\ answered = {}
    /\ told = FALSE
    /\ late = {}
    /\ refused = {}

-----------------------------------------------------------------------------
(* The app's runloop.                                                      *)

\* ten_runloop_post_task_tail() for each of ts, q being in the queue.  A runloop that is
\* stopping refuses them; only the posts for an engine expect that.
Post(q, ts) ==
    IF loop = "running" THEN tasks' = q \o ts /\ UNCHANGED refused
    ELSE /\ tasks' = q
         /\ refused' = refused \cup {t \in {ts[i] : i \in DOMAIN ts} : t[1] # "engine"}

\* From another thread, from a callback of a socket, or from code of the app.
PostToApp(ts) == Post(tasks, ts) /\ UNCHANGED <<draining, in_msgs, batch>>

\* The app's thread, woken by the first task, takes the task t; the handler posts ts.
Takes(t, ts) ==
    /\ loop # "stopped" /\ batch = <<>> /\ tasks # <<>>
    /\ Head(tasks) = t
    /\ Post(Tail(tasks), ts)
    /\ draining' = (tasks' # <<>>)
    /\ UNCHANGED batch

LooksAtSockets == loop # "stopped" /\ ~draining

\* ten_runloop_stop().
Stops == loop' = IF loop = "running" THEN "stopping" ELSE loop

\* task_available_signal_closed(): the remaining tasks were flushed.
LoopEnds ==
    /\ loop = "stopping" /\ tasks = <<>> /\ batch = <<>>
    /\ loop' = "stopped"
    /\ UNCHANGED <<state, user, deinits, queues, engs, world, rest>>

-----------------------------------------------------------------------------
(* Closing.  The app may be told to close by another thread, by a command, *)
(* by a step of its start that fails, or by its last engine.               *)

\* ten_app_close(): the new state, and the task that it posts.
Closed == IF IsClosing(state) THEN state ELSE "CLOSING"
CloseTask == IF IsClosing(state) THEN <<>> ELSE <<<<"close">>>>

\* ten_app_proceed_to_close(), in the state that the handler leaves: on_deinit is called
\* when nothing is left.
Proceeds ==
    IF CouldBeClose' THEN deinits' = deinits + 1 /\ user' = user \cup {"on_deinit"}
    ELSE UNCHANGED <<deinits, user>>

ProceedsIfClosing == IF IsClosing(state') THEN Proceeds ELSE UNCHANGED <<deinits, user>>

\* ten_app_close() from another thread.
CloseApp ==
    /\ state \in CloseFrom /\ loop = "running"
    /\ state' = Closed
    /\ PostToApp(CloseTask)
    /\ UNCHANGED <<user, deinits, loop, engs, world, rest>>

\* The engines in the order of the list, which is not kept here.
Orders(S) == {q \in [1..Cardinality(S) -> S] : \A i, j \in DOMAIN q : i # j => q[i] # q[j]}

\* ten_app_close_sync().
CloseSync(q) ==
    /\ e_tasks' = [e \in Engine |-> IF config.own_loop /\ e \in engines /\ ~Ended(e)
                                    THEN Append(e_tasks[e], <<"close">>) ELSE e_tasks[e]]
    /\ client' = [c \in Client |-> IF client[c] \in {"orphan", "left"} THEN "closing"
                                   ELSE client[c]]
    /\ endpoint' = IF endpoint = "listening" THEN "closing" ELSE endpoint
    /\ Takes(<<"close">>, IF config.own_loop THEN <<>>
                          ELSE [i \in DOMAIN q |-> <<"engine", q[i], <<"close">>>>])
    /\ UNCHANGED <<deinits, user>>

\* ten_app_close_task().
TakeClose ==
    /\ UNCHANGED engines
    /\ \/ /\ CouldBeClose
          /\ Takes(<<"close">>, <<>>)
          /\ UNCHANGED <<e_tasks, client, endpoint>>
          /\ Proceeds
       \/ /\ ~CouldBeClose
          /\ \E q \in Orders(engines) : CloseSync(q)
    /\ told' = TRUE
    /\ UNCHANGED <<state, loop, in_msgs, e_state, cmd_stop_graph, proxy, config,
                   requests, answered, late>>

\* ten_app_on_deinit_done().
OnDeinitDone ==
    /\ "on_deinit" \in user /\ loop # "stopped" /\ batch = <<>>
    /\ user' = user \ {"on_deinit"}
    /\ IF state # "CLOSING" THEN UNCHANGED <<state, loop>>
       ELSE /\ state' = "ON_DEINIT_DONE"
            /\ IF proxy \in {"none", "deleted"} THEN Stops ELSE UNCHANGED loop
    /\ UNCHANGED <<deinits, queues, engs, world, rest>>

-----------------------------------------------------------------------------
(* The start.                                                              *)

\* ten_app_handle_metadata() and ten_app_on_configure(), which sets the state whatever it is.
TakeMetadata ==
    /\ Takes(<<"metadata">>, <<>>)
    /\ state' = "ON_CONFIGURE"
    /\ user' = user \cup {"on_configure"}
    /\ UNCHANGED <<deinits, loop, in_msgs, engs, world, rest>>

\* ten_app_on_configure_done(): the addon loaders are created, which ends in a task.
OnConfigureDone ==
    /\ "on_configure" \in user /\ loop # "stopped" /\ batch = <<>>
    /\ user' = user \ {"on_configure"}
    /\ IF state # "ON_CONFIGURE" THEN UNCHANGED <<state, queues>>
       ELSE state' = "ON_CONFIGURE_DONE" /\ PostToApp(<<<<"loaders_created">>>>)
    /\ UNCHANGED <<deinits, loop, engs, world, rest>>

\* ten_app_create_engine().
Creates(es) ==
    /\ engines' = engines \cup es
    /\ e_state' = [e \in Engine |-> IF e \in es THEN "running" ELSE e_state[e]]
    /\ late' = IF told THEN late \cup es ELSE late
    /\ UNCHANGED <<e_tasks, cmd_stop_graph>>

\* The predefined graphs are started, then ten_app_on_init().
StartsGraphs ==
    /\ Creates(AutoStart)
    /\ state' = "ON_INIT"
    /\ user' = user \cup {"on_init"}
    /\ UNCHANGED <<deinits, loop, in_msgs, client, proxy, config, requests, answered, told>>

\* A step of the start fails.
StartFails(t) ==
    /\ Takes(t, CloseTask)
    /\ state' = Closed
    /\ UNCHANGED <<user, deinits, loop, in_msgs, engs, world, rest>>

\* ten_app_continue_run_after_load_all_extensions_if_specified().
TakeLoadersCreated ==
    \/ StartFails(<<"loaders_created">>)
    \/ /\ config.endpoint
       /\ Takes(<<"loaders_created">>, <<<<"endpoint_created">>>>)
       /\ UNCHANGED <<life, in_msgs, engs, world, rest>>
    \/ /\ ~config.endpoint
       /\ Takes(<<"loaders_created">>, <<>>)
       /\ StartsGraphs
       /\ UNCHANGED endpoint

\* ten_app_on_endpoint_protocol_created().
TakeEndpointCreated ==
    \/ StartFails(<<"endpoint_created">>)
    \/ /\ Takes(<<"endpoint_created">>, <<>>)
       /\ endpoint' = "listening"
       /\ StartsGraphs

\* ten_app_on_init_done().  The test and the assignment are one step, here and in
\* OnConfigureDone; the code has no lock around them, so that a close by another thread
\* between the two is overwritten, like one that comes just before on_init.
OnInitDone ==
    /\ "on_init" \in user /\ loop # "stopped" /\ batch = <<>>
    /\ user' = user \ {"on_init"}
    /\ state' = IF state = "ON_INIT" THEN "ON_INIT_DONE" ELSE state
    /\ UNCHANGED <<deinits, loop, queues, engs, world, rest>>

\* The code of the app makes a ten_env_proxy for an outer thread.
CreateProxy ==
    /\ proxy = "none"
    /\ "on_init" \in user /\ loop # "stopped" /\ batch = <<>>
    /\ proxy' = "held"
    /\ UNCHANGED <<life, queues, engs, endpoint, client, rest>>

\* ten_env_proxy_release() in that thread.
ReleaseProxy ==
    /\ proxy = "held"
    /\ proxy' = "released"
    /\ PostToApp(<<<<"proxy_released">>>>)
    /\ UNCHANGED <<life, engs, endpoint, client, rest>>

\* ten_env_delete_ten_proxy(): the last one stops the runloop of an app that is closing.
TakeProxyReleased ==
    /\ Takes(<<"proxy_released">>, <<>>)
    /\ proxy' = "deleted"
    /\ IF IsClosing(state) THEN Stops ELSE UNCHANGED loop
    /\ UNCHANGED <<state, user, deinits, in_msgs, engs, endpoint, client, rest>>

-----------------------------------------------------------------------------
(* The engines.                                                            *)

\* ten_runloop_post_task_tail() of t to the runloop of e, by the app's thread.
PostToEngine(e, t, q) ==
    IF config.own_loop
    THEN /\ Post(q, <<>>)
         /\ e_tasks' = IF Ended(e) THEN e_tasks ELSE [e_tasks EXCEPT ![e] = Append(@, t)]
    ELSE Post(q, <<<<"engine", e, t>>>>) /\ UNCHANGED e_tasks

\* The engine takes t, and posts ts to itself.  A runloop that is stopping still takes what
\* it has; a task keeps the engine in being that shares the app's runloop.
EngineTask(e, t, ts) ==
    \/ /\ config.own_loop
       /\ e_tasks[e] # <<>> /\ Head(e_tasks[e]) = t
       /\ e_tasks' = [e_tasks EXCEPT ![e] = Tail(@) \o (IF Ended(e) THEN <<>> ELSE ts)]
       /\ UNCHANGED queues
    \/ /\ ~config.own_loop
       /\ Takes(<<"engine", e, t>>, [i \in DOMAIN ts |-> <<"engine", e, ts[i]>>])
       /\ UNCHANGED <<e_tasks, in_msgs>>

\* ten_engine_handle_cmd_stop_graph(): r asks for the end of e.
EngineTakesStop(e, r) ==
    /\ EngineTask(e, <<"stop", r>>, <<<<"close">>>>)
    /\ cmd_stop_graph' = [cmd_stop_graph EXCEPT ![e] = r]
    /\ UNCHANGED <<life, engines, e_state, world, rest>>

\* ten_engine_close_task().
EngineTakesClose(e) ==
    /\ EngineTask(e, <<"close">>, <<>>)
    /\ e_state' = IF e_state[e] = "running" THEN [e_state EXCEPT ![e] = "closing"] ELSE e_state
    /\ UNCHANGED <<life, engines, cmd_stop_graph, world, rest>>

\* ten_engine_do_close(): an engine with a thread of its own has closed what it had.
EngineStops(e) ==
    /\ config.own_loop /\ e_state[e] = "closing"
    /\ e_state' = [e_state EXCEPT ![e] = "stopping"]
    /\ UNCHANGED <<life, queues, engines, e_tasks, cmd_stop_graph, world, rest>>

\* ten_app_on_engine_closed(): the thread of e ends; or the last thing that an engine in
\* the app's runloop waits for has ended, which is a task as well (or comes when there is
\* none).
EngineCloses(e) ==
    /\ e_state[e] = (IF config.own_loop THEN "stopping" ELSE "closing") /\ e_tasks[e] = <<>>
    /\ e_state' = [e_state EXCEPT ![e] = "closed"]
    /\ PostToApp(<<<<"engine_closed", e>>>>)
    /\ UNCHANGED <<life, engines, e_tasks, cmd_stop_graph, world, rest>>

\* Faulty variants: without looking whether there is a command, and with the comparison of
\* the graphs the wrong way round.
AnswerAlways(e) == <<<<"result", e, cmd_stop_graph[e]>>>>
AnswerItself(e) == IF cmd_stop_graph[e] # e THEN <<>> ELSE <<<<"result", e, e>>>>

\* The engine e was stopped by a command of another graph, which is answered.
Answer(e) == IF cmd_stop_graph[e] \in {NoOne, e} THEN <<>>
             ELSE <<<<"result", e, cmd_stop_graph[e]>>>>

\* Faulty variant: an app that is not long running goes on without engines.
EngineClosedOnly(e) ==
    /\ Takes(<<"engine_closed", e>>, IF Answer(e) = <<>> THEN <<>> ELSE <<<<"in_msgs">>>>)
    /\ in_msgs' = in_msgs \o Answer(e)
    /\ engines' = engines \ {e}
    /\ UNCHANGED <<state, loop, e_state, e_tasks, cmd_stop_graph, world, rest>>
    /\ ProceedsIfClosing

\* ten_app_check_termination_when_engine_closed().
TakeEngineClosed(e) ==
    LET last == ~config.long_running /\ engines = {e}
        result == IF Answer(e) = <<>> THEN <<>> ELSE <<<<"in_msgs">>>>
    IN  /\ Takes(<<"engine_closed", e>>, IF last THEN result \o CloseTask ELSE result)
        /\ in_msgs' = in_msgs \o Answer(e)
        /\ engines' = engines \ {e}
        /\ state' = IF last THEN Closed ELSE state
        /\ UNCHANGED <<loop, e_state, e_tasks, cmd_stop_graph, world, rest>>
        /\ ProceedsIfClosing

\* An extension of r sends a command to the app: ten_app_push_to_in_msgs_queue().
Sends(m) ==
    /\ requests < MaxRequests
    /\ requests' = requests + 1
    /\ in_msgs' = Append(in_msgs, m)
    /\ Post(tasks, <<<<"in_msgs">>>>)
    /\ UNCHANGED <<life, draining, batch, engs, world, config, answered, told, late>>

Send(r) ==
    /\ e_state[r] \in {"running", "closing"}
    /\ \/ \E e \in Engine : e_state[e] = "none" /\ Sends(<<"start_graph", e>>)
       \/ \E e \in Engine \ {r} : e_state[e] # "none" /\ Sends(<<"stop_graph", e, r>>)
       \/ Sends(<<"close_app">>)

\* It stops its own graph.
StopItself(r) ==
    /\ e_state[r] \in {"running", "closing"}
    /\ requests < MaxRequests
    /\ requests' = requests + 1
    /\ PostToEngine(r, <<"stop", r>>, tasks)
    /\ UNCHANGED <<life, draining, in_msgs, batch, engines, e_state, cmd_stop_graph, world,
                   config, answered, told, late>>

\* The app's own code starts a graph in its on_init, with ten_env.send_cmd(), and not after
\* its on_deinit.
AppStartsGraph(e) ==
    /\ "on_init" \in user /\ deinits = 0 /\ batch = <<>>
    /\ e_state[e] = "none"
    /\ Creates({e})
    /\ UNCHANGED <<life, queues, world, config, requests, answered, told>>

-----------------------------------------------------------------------------
(* The messages for the app.                                               *)

\* ten_app_handle_in_msgs_sync() takes out all of them.
TakeInMsgs ==
    /\ loop # "stopped" /\ batch = <<>> /\ tasks # <<>>
    /\ Head(tasks) = <<"in_msgs">>
    /\ tasks' = Tail(tasks)
    /\ batch' = in_msgs
    /\ in_msgs' = <<>>
    /\ draining' = (tasks' # <<>> \/ batch' # <<>>)
    /\ UNCHANGED <<life, refused, engs, world, rest>>

\* ten_app_handle_in_msg().
Handles(m) ==
    /\ batch # <<>>
    /\ Head(batch) = m
    /\ batch' = Tail(batch)

StaysInTasks == draining' = (tasks' # <<>> \/ batch' # <<>>)

\* ten_app_handle_start_graph_cmd(): an engine is created, closing or not.
HandleStartGraph(e) ==
    /\ Handles(<<"start_graph", e>>)
    /\ IF e_state[e] = "none" THEN Creates({e}) ELSE UNCHANGED <<engs, late>>
    /\ UNCHANGED <<tasks, refused>>
    /\ StaysInTasks
    /\ UNCHANGED <<life, in_msgs, world, config, requests, answered, told>>

\* ten_app_handle_stop_graph_cmd().
HandleStopGraph(e, r) ==
    /\ Handles(<<"stop_graph", e, r>>)
    /\ \/ /\ e \in engines
          /\ PostToEngine(e, <<"stop", r>>, tasks)
          /\ UNCHANGED in_msgs
       \/ /\ e \notin engines
          /\ in_msgs' = Append(in_msgs, <<"result", e, r>>)
          /\ Post(tasks, <<<<"in_msgs">>>>)
          /\ UNCHANGED e_tasks
    /\ StaysInTasks
    /\ UNCHANGED <<life, engines, e_state, cmd_stop_graph, world, rest>>

\* ten_app_handle_close_app_cmd().
HandleCloseApp ==
    /\ Handles(<<"close_app">>)
    /\ Post(tasks, CloseTask)
    /\ state' = Closed
    /\ StaysInTasks
    /\ UNCHANGED <<user, deinits, loop, in_msgs, engs, world, rest>>

\* ten_app_handle_msg_default_handler(), for the result of a stop_graph command: it goes
\* to its engine, or nowhere.
HandleResult(e, r) ==
    /\ Handles(<<"result", e, r>>)
    /\ answered' = IF r \in engines THEN answered \cup {e} ELSE answered
    /\ UNCHANGED <<tasks, refused>>
    /\ StaysInTasks
    /\ UNCHANGED <<life, in_msgs, engs, world, config, requests, told, late>>

-----------------------------------------------------------------------------
(* The endpoint and its clients.                                           *)

\* ten_transport_on_client_accepted(): the creation of a protocol ends in a task.
Accept(c) ==
    /\ LooksAtSockets /\ endpoint = "listening" /\ client[c] = "none"
    /\ client' = [client EXCEPT ![c] = "accepted"]
    /\ PostToApp(<<<<"client_created", c>>>>)
    /\ UNCHANGED <<life, engs, endpoint, proxy, rest>>

\* ten_app_thread_on_client_protocol_created(), ten_connection_attach_to_app().
TakeClientCreated(c) ==
    /\ Takes(<<"client_created", c>>, <<>>)
    /\ client' = [client EXCEPT ![c] = "orphan"]
    /\ late' = IF told THEN late \cup {c} ELSE late
    /\ UNCHANGED <<life, in_msgs, engs, endpoint, proxy, config, requests, answered, told>>

\* ten_stream_on_data(): the client has closed the connection.
ClientLeaves(c) ==
    /\ LooksAtSockets /\ client[c] = "orphan"
    /\ client' = [client EXCEPT ![c] = "left"]
    /\ PostToApp(<<<<"close_client", c>>>>)
    /\ UNCHANGED <<life, engs, endpoint, proxy, rest>>

\* ten_protocol_close_task().
TakeCloseClient(c) ==
    /\ Takes(<<"close_client", c>>, <<>>)
    /\ client' = [client EXCEPT ![c] = IF @ = "left" THEN "closing" ELSE @]
    /\ UNCHANGED <<life, in_msgs, engs, endpoint, proxy, rest>>

\* The stream, the protocol and the connection are closed:
\* ten_app_on_orphan_connection_closed().
ClientClosed(c) ==
    /\ LooksAtSockets /\ client[c] = "closing"
    /\ client' = [client EXCEPT ![c] = "gone"]
    /\ UNCHANGED <<state, loop, queues, engs, endpoint, proxy, rest>>
    /\ ProceedsIfClosing

\* A command of a client for the graph e, whose engine has no thread of its own: the
\* connection belongs to the engine from now on.
ClientStartsGraph(c, e) ==
    /\ LooksAtSockets /\ client[c] = "orphan" /\ ~config.own_loop
    /\ e_state[e] = "none" \/ e \in engines
    /\ client' = [client EXCEPT ![c] = "gone"]
    /\ IF e_state[e] = "none" THEN Creates({e}) ELSE UNCHANGED <<engs, late>>
    /\ UNCHANGED <<life, queues, endpoint, proxy, config, requests, answered, told>>

\* A close_app command of a client.
ClientClosesApp(c) ==
    /\ LooksAtSockets /\ client[c] = "orphan"
    /\ state' = Closed
    /\ PostToApp(CloseTask)
    /\ UNCHANGED <<user, deinits, loop, engs, world, rest>>

\* ten_app_on_protocol_closed().
EndpointClosed ==
    /\ LooksAtSockets /\ endpoint = "closing"
    /\ endpoint' = "closed"
    /\ UNCHANGED <<state, loop, queues, engs, client, proxy, rest>>
    /\ ProceedsIfClosing

-----------------------------------------------------------------------------
\* What the app's thread does by itself.
AppThread ==
    \/ TakeMetadata \/ TakeLoadersCreated \/ TakeEndpointCreated \/ TakeClose
    \/ TakeProxyReleased \/ TakeInMsgs \/ HandleCloseApp \/ LoopEnds \/ EndpointClosed
    \/ \E e \in Engine :
          \/ TakeEngineClosed(e) \/ HandleStartGraph(e)
          \/ \E r \in Engine : HandleStopGraph(e, r) \/ HandleResult(e, r)
    \/ \E c \in Client : TakeClientCreated(c) \/ TakeCloseClient(c) \/ ClientClosed(c)

EngineThread(e) == (\E r \in Engine : EngineTakesStop(e, r)) \/ EngineTakesClose(e)

EngineEnds(e) == EngineStops(e) \/ EngineCloses(e)

User == OnConfigureDone \/ OnInitDone \/ OnDeinitDone

Next ==
    \/ AppThread \/ User \/ CloseApp \/ CreateProxy \/ ReleaseProxy
    \/ \E e \in Engine :
          EngineThread(e) \/ EngineEnds(e) \/ Send(e) \/ StopItself(e) \/ AppStartsGraph(e)
    \/ \E c \in Client :
          \/ Accept(c) \/ ClientLeaves(c) \/ ClientClosesApp(c)
          \/ \E e \in Engine : ClientStartsGraph(c, e)

\* The threads run on, an app calls the on_xxx_done() it owes and gives its proxy back, and
\* an engine that is told to close does (GraphLifecycle).  Nobody has to send, connect,
\* leave or close anything.
Fairness ==
    /\ WF_vars(AppThread)
    /\ WF_vars(User)
    /\ WF_vars(ReleaseProxy)
    /\ \A e \in Engine : WF_vars(EngineThread(e)) /\ WF_vars(EngineEnds(e))

Spec == Init /\ [][Next]_vars
FairSpec == Spec /\ Fairness

-----------------------------------------------------------------------------
Messages ==
    ({"start_graph"} \X Engine) \cup ({"stop_graph", "result"} \X Engine \X Engine)
    \cup {<<"close_app">>}

EngineTasks == ({"stop"} \X Engine) \cup {<<"close">>}

Tasks ==
    {<<"metadata">>, <<"loaders_created">>, <<"endpoint_created">>, <<"close">>,
     <<"proxy_released">>, <<"in_msgs">>}
    \cup ({"engine_closed"} \X Engine) \cup ({"client_created", "close_client"} \X Client)
    \cup ({"engine"} \X Engine \X EngineTasks)

\* The values that the variables may take.
TypeOK ==
    /\ config \in [own_loop : BOOLEAN, long_running : BOOLEAN, endpoint : BOOLEAN]
    /\ state \in States
    /\ user \subseteq {"on_configure", "on_init", "on_deinit"}
    /\ deinits \in Nat
    /\ loop \in {"running", "stopping", "stopped"}
    /\ tasks \in Seq(Tasks)
    /\ draining \in BOOLEAN
    /\ in_msgs \in Seq(Messages) /\ batch \in Seq(Messages)
    /\ engines \subseteq Engine
    /\ e_state \in [Engine -> {"none", "running", "closing", "stopping", "closed"}]
    /\ e_tasks \in [Engine -> Seq(EngineTasks)]
    /\ cmd_stop_graph \in [Engine -> Engine \cup {NoOne}]
    /\ endpoint \in {"none", "listening", "closing", "closed"}
    /\ client \in [Client -> {"none", "accepted", "orphan", "left", "closing", "gone"}]
    /\ proxy \in {"none", "held", "released", "deleted"}
    /\ requests \in Nat
    /\ answered \subseteq Engine
    /\ told \in BOOLEAN
    /\ late \subseteq Engine \cup Client

\* Whoever is the last to close finds that nothing is left (close.c:48-59): an app that is
\* closing, has taken its close task and has nothing left was deinitialised.  A report
\* that does not look, or that comes before its sender is out of the lists, would leave
\* the app waiting for nobody.
NothingLeftMeansDeinit ==
    (state = "CLOSING" /\ loop = "running"
        /\ engines = {} /\ Orphans = {} /\ endpoint \in {"none", "closed"}
        /\ \A i \in DOMAIN tasks : tasks[i] # <<"close">>)
    => deinits > 0

\* When on_deinit is done nothing is left, and nothing comes: the assertions in
\* ten_app_destroy() that engines and orphan_connections are empty (app.c:209).  A client
\* whose protocol is still being created, a command in in_msgs and the thread of an engine
\* could all come after the last report.
DeinitLeavesNothing ==
    state = "ON_DEINIT_DONE" => engines = {} /\ Orphans = {} /\ endpoint \in {"none", "closed"}

\* on_deinit is called once, by whichever report comes last, in an app that listens: its
\* endpoint closes only after the close task.  In an app without endpoint the last engine
\* may close first, and then both that report and the close task find nothing left.
DeinitOnce == deinits > 1 => endpoint = "none"

\* The app is deinitialised when nothing is left: then, not before, and once.
DeinitWhenNothingLeft == NothingLeftMeansDeinit /\ DeinitLeavesNothing /\ DeinitOnce

\* Nobody posts to a runloop that is stopping: the assertions after each
\* ten_runloop_post_task_tail() to the app (close.c:172, common.c:612,
\* engine_interface.c:44, ten_env_proxy.c:246).  With a ten_env_proxy of the app this does
\* not hold: its release stops the runloop of an app that is closing at once.  Nor does it
\* when the start has set back the state of an app that was closed.
PostsSucceedAlone == proxy = "none" => refused = {}

\* An app that is closing ends, unless something was added to it after it had told
\* everything to close (nobody tells that).  ten_app_close() promises it to any thread
\* (close.c:130-144), at any time; on_configure and on_init then set the state back, and an
\* app that was closed before them goes on without its engines and its endpoint.
ClosingEnds == (state = "CLOSING") ~> (loop = "stopped" \/ late # {})

\* An app that is not long running ends with its last engine.
IdleAppEnds ==
    (~config.long_running /\ engines = {} /\ \E e \in Engine : e_state[e] = "closed")
    ~> (loop = "stopped" \/ engines # {} \/ late # {})

\* The app comes to its end, by a close or because nothing is left to do.
AppEnds == ClosingEnds /\ IdleAppEnds

\* A stop_graph command from another graph is answered when its graph has been stopped,
\* if the sender is still there.
StopIsAnswered ==
    \A e \in Engine : \A r \in Engine \ {e} :
        (cmd_stop_graph[e] = r /\ e \in engines)
        ~> (e \in answered \/ r \notin engines \/ cmd_stop_graph[e] # r \/ loop = "stopped")
=============================================================================
