--------------------------- MODULE GraphLifecycle ---------------------------
(***************************************************************************)
(* How one engine starts and closes the graph it runs.                     *)
(*                                                                         *)
(* The engine and every extension thread have a runloop, a FIFO queue of   *)
(* tasks; the app's thread, which creates and destroys the instances of    *)
(* addons, answers requests in any order.  An extension thread runs one    *)
(* extension group and its extensions; between two tasks an extension may  *)
(* call the on_xxx_done() it owes.  The engine may be told to close before *)
(* it has begun to start the graph, and at any time from the stage         *)
(* CloseFrom on; a close while it creates the groups posts to runloops     *)
(* that do not exist yet.                                                  *)
(***************************************************************************)
EXTENDS Naturals, Sequences, FiniteSets

CONSTANTS
    Group,          \* the extension groups of the graph, one extension thread each
    NExt,           \* [Group -> number of extensions in the group]
    Unreliable,     \* the extensions whose creation may fail
    Proxied,        \* the extensions that may create a ten_env_proxy
    CloseFrom,      \* the stage from which the app may close the engine
    MaxClose        \* bound: how many close requests the engine gets

Stages == {"started", "answered"}

\* An extension is named by its group and its index in the group.
ExtOf(g) == {<<g, i>> : i \in 1..NExt[g]}
Extension == UNION {ExtOf(g) : g \in Group}

ASSUME GraphLifecycleAssumption ==
    /\ IsFiniteSet(Group)
    /\ NExt \in [Group -> Nat]
    /\ Unreliable \subseteq Extension
    /\ Proxied \subseteq Extension
    /\ CloseFrom \in Stages
    /\ MaxClose \in Nat

VARIABLES
    engine,         \* running, or closed: its runloop is stopped and the app may destroy it
    e_queue,        \* the tasks in the engine's runloop
    extension_context,  \* none, open or closed
    is_closing,
    threads,        \* extension_context->extension_threads
    cnt,            \* the counters of the context: ready, closed and total threads
    start_graph,    \* the start_graph command: none, pending, ok or error
    close_requests, \* how often the engine was told to close
    runloop,        \* per thread: none, running, stopped, exited
    t_queue,        \* per thread: the tasks in its runloop
    t_state,        \* per thread: TEN_EXTENSION_THREAD_STATE
    is_close_triggered, \* the threads that have been told to close
    err_before_ready,   \* the groups in which the creation of an extension failed
    ext_state,      \* per extension: TEN_EXTENSION_STATE, or none, failed, deleted,
                    \* destroyed
    path_timers,    \* the extensions with path timers
    proxy,          \* per extension: its ten_env_proxy
    addon           \* the requests that the app's thread has not answered yet

context == <<extension_context, is_closing, threads, cnt, start_graph>>
life == <<ext_state, path_timers, proxy>>
vars == <<engine, e_queue, context, close_requests, runloop, t_queue, t_state,
          is_close_triggered, err_before_ready, life, addon>>

\* state >= TEN_EXTENSION_STATE_ON_STOP.
CloseFlow == {"ON_STOP", "ON_STOP_DONE", "ON_DEINIT", "ON_DEINIT_DONE", "deleted", "destroyed"}
StartFlow == {"INIT", "ON_CONFIGURE", "ON_CONFIGURE_DONE", "ON_INIT", "ON_INIT_DONE",
              "ON_START", "ON_START_DONE"}

\* extension_thread->extensions, from on_create_extensions_done() on.
Extensions(g) == {x \in ExtOf(g) : ext_state[x] \notin {"none", "failed"}}

\* The engine takes the task <<name, arg>>; tasks that it posts to itself follow.
EngineTask(name, arg, posts) ==
    /\ engine = "running"
    /\ e_queue # <<>>
    /\ Head(e_queue) = <<name, arg>>
    /\ e_queue' = Tail(e_queue) \o posts

\* The thread of g takes the task <<name, arg>>, and posts to itself.
ThreadTask(g, name, arg, posts) ==
    /\ runloop[g] = "running"
    /\ t_queue[g] # <<>>
    /\ Head(t_queue[g]) = <<name, arg>>
    /\ t_queue' = [t_queue EXCEPT ![g] = Tail(@) \o posts]

Init ==
    /\ engine = "running"
    /\ e_queue = <<<<"start_graph", 0>>>>
    /\ extension_context = "none"
    /\ is_closing = FALSE
    /\ threads = {}
    /\ cnt = [ready |-> 0, closed |-> 0, total |-> 0]
    /\ start_graph = "none"
    /\ close_requests = 0
    /\ runloop = [g \in Group |-> "none"]
    /\ t_queue = [g \in Group |-> <<>>]
    /\ t_state = [g \in Group |-> "INIT"]
    /\ is_close_triggered = {}
    /\ err_before_ready = {}
    /\ ext_state = [x \in Extension |-> "none"]
    /\ path_timers = {}
    /\ proxy = [x \in Extension |-> "never"]
    /\ addon = {}

-----------------------------------------------------------------------------
(* The app: it creates and destroys the instances of addons and may close  *)
(* the engine.                                                             *)

Reached(stage) ==
    CASE stage = "started" ->
            extension_context = "none" \/ \A g \in Group : runloop[g] # "none"
      [] stage = "answered" -> start_graph \in {"ok", "error"}

\* ten_engine_close_async.
CloseEngine ==
    /\ engine = "running"
    /\ Reached(CloseFrom)
    /\ close_requests < MaxClose
    /\ close_requests' = close_requests + 1
    /\ e_queue' = Append(e_queue, <<"close", 0>>)
    /\ UNCHANGED <<engine, context, runloop, t_queue, t_state, is_close_triggered,
                   err_before_ready, life, addon>>

GroupInstance(g) ==
    /\ <<"create_group", g>> \in addon
    /\ addon' = addon \ {<<"create_group", g>>}
    /\ e_queue' = Append(e_queue, <<"group_created", g>>)
    /\ UNCHANGED t_queue

ThreadReply(g, request, reply) ==
    /\ request \in addon
    /\ addon' = addon \ {request}
    /\ t_queue' = [t_queue EXCEPT ![g] = Append(@, reply)]
    /\ UNCHANGED e_queue

AddonDone(g) ==
    /\ \/ GroupInstance(g)
       \/ \E x \in ExtOf(g) :
             \/ ThreadReply(g, <<"create_ext", x>>, <<"ext_created", x>>)
             \/ /\ x \in Unreliable
                /\ ThreadReply(g, <<"create_ext", x>>, <<"ext_failed", x>>)
             \/ ThreadReply(g, <<"destroy_ext", x>>, <<"ext_destroyed", x>>)
       \/ ThreadReply(g, <<"destroy_group", g>>, <<"group_destroyed", g>>)
    /\ UNCHANGED <<engine, context, close_requests, runloop, t_state, is_close_triggered,
                   err_before_ready, life>>

-----------------------------------------------------------------------------
(* The engine.                                                             *)

\* ten_engine_enable_extension_system: create the extension context and ask for its groups.
StartGraph ==
    /\ EngineTask("start_graph", 0, <<>>)
    /\ start_graph' = "pending"
    /\ extension_context' = "open"
    /\ addon' = addon \union {<<"create_group", g>> : g \in Group}
    /\ UNCHANGED <<engine, is_closing, threads, cnt, close_requests, runloop, t_queue,
                   t_state, is_close_triggered, err_before_ready, life>>

\* A group instance exists: attach a thread to the context, and start all the threads
\* once there is one for each group.
GroupCreated(g) ==
    /\ EngineTask("group_created", g, <<>>)
    /\ threads' = threads \union {g}
    /\ IF Cardinality(threads') = Cardinality(Group)
       THEN /\ runloop' = [h \in Group |-> IF h \in threads' THEN "running" ELSE runloop[h]]
            /\ t_queue' = [h \in Group |-> IF h \in threads' THEN <<<<"start", h>>>> \o t_queue[h]
                                                             ELSE t_queue[h]]
       ELSE UNCHANGED <<runloop, t_queue>>
    /\ UNCHANGED <<engine, extension_context, is_closing, cnt, start_graph, close_requests,
                   t_state, is_close_triggered, err_before_ready, life, addon>>

\* The thread was told to close: its extensions are to stop instead of starting.
StopInstead(g) ==
    /\ g \in is_close_triggered
    /\ EngineTask("find_info", g, <<>>)
    /\ t_queue' = [t_queue EXCEPT ![g] = Append(@, <<"stop_life_cycle", g>>)]
    /\ UNCHANGED <<cnt, start_graph>>

\* Faulty variant: the errors of the group that is ready last decide.
StartExtensionsLastGroup(g) ==
    LET all_ready == cnt.ready + 1 = Cardinality(threads)
        failed == g \in err_before_ready
    IN  /\ g \notin is_close_triggered
        /\ cnt' = [cnt EXCEPT !.ready = @ + 1]
        /\ start_graph' = IF ~all_ready THEN start_graph ELSE IF failed THEN "error" ELSE "ok"
        /\ EngineTask("find_info", g, IF all_ready /\ failed /\ ~is_closing
                                      THEN <<<<"close", 0>>>> ELSE <<>>)
        /\ t_queue' = [t_queue EXCEPT ![g] = Append(@, <<"start_life_cycle", g>>)]

\* One more thread is ready; when that makes all of them, start_graph is answered, and an
\* engine that failed to start sends itself stop_graph.
StartExtensions(g) ==
    LET all_ready == cnt.ready + 1 = Cardinality(threads)
        failed == threads \intersect err_before_ready # {}
    IN  /\ g \notin is_close_triggered
        /\ cnt' = [cnt EXCEPT !.ready = @ + 1]
        /\ start_graph' = IF ~all_ready THEN start_graph ELSE IF failed THEN "error" ELSE "ok"
        /\ EngineTask("find_info", g, IF all_ready /\ failed /\ ~is_closing
                                      THEN <<<<"close", 0>>>> ELSE <<>>)
        /\ t_queue' = [t_queue EXCEPT ![g] = Append(@, <<"start_life_cycle", g>>)]

\* ten_engine_find_extension_info_for_all_extensions_of_extension_thread_task: it reads
\* the flag of the other thread without a lock.
FindInfo(g) ==
    /\ StopInstead(g) \/ StartExtensions(g)
    /\ UNCHANGED <<engine, extension_context, is_closing, threads, close_requests, runloop,
                   t_state, is_close_triggered, err_before_ready, life, addon>>

\* The engine is closing already: closing again does nothing.
CloseAgain ==
    /\ is_closing
    /\ UNCHANGED <<engine, extension_context, is_closing, cnt, t_queue>>

\* Nothing to wait for: the context, if there is one, closes at once, and the engine.
CloseAtOnce ==
    /\ ~is_closing
    /\ threads = {}
    /\ is_closing' = TRUE
    /\ extension_context' = IF extension_context = "open" THEN "closed" ELSE extension_context
    /\ engine' = "closed"
    /\ UNCHANGED <<cnt, t_queue>>

\* ten_extension_context_close: tell every thread to close.
CloseThreads ==
    /\ ~is_closing
    /\ threads # {}
    /\ is_closing' = TRUE
    /\ cnt' = [cnt EXCEPT !.closed = 0, !.total = Cardinality(threads)]
    /\ t_queue' = [g \in Group |-> IF g \in threads THEN Append(t_queue[g], <<"trigger_close", g>>)
                                                    ELSE t_queue[g]]
    /\ UNCHANGED <<engine, extension_context>>

CloseTask ==
    /\ EngineTask("close", 0, <<>>)
    /\ CloseAgain \/ CloseAtOnce \/ CloseThreads
    /\ UNCHANGED <<threads, start_graph, close_requests, runloop, t_state,
                   is_close_triggered, err_before_ready, life, addon>>

RemoveThread(g) ==
    /\ EngineTask("remove_thread", g, <<>>)
    /\ threads' = threads \ {g}
    /\ t_queue' = [t_queue EXCEPT ![g] = Append(@, <<"removed_from_engine", g>>)]
    /\ UNCHANGED <<engine, extension_context, is_closing, cnt, start_graph, close_requests,
                   runloop, t_state, is_close_triggered, err_before_ready, life, addon>>

\* Faulty variant: the context closes with the first thread that has closed.
FirstThreadClosed(g) ==
    /\ EngineTask("thread_closed", g, <<>>)
    /\ cnt' = [cnt EXCEPT !.closed = @ + 1]
    /\ extension_context' = "closed"
    /\ engine' = "closed"
    /\ UNCHANGED <<is_closing, threads, start_graph, close_requests, runloop, t_queue,
                   t_state, is_close_triggered, err_before_ready, life, addon>>

\* The engine joins the thread and destroys it; the last one lets the context close, and
\* the engine after it.
ThreadClosed(g) ==
    /\ EngineTask("thread_closed", g, <<>>)
    /\ cnt' = [cnt EXCEPT !.closed = @ + 1]
    /\ IF cnt'.closed = cnt.total
       THEN /\ extension_context' = "closed"
            /\ engine' = IF is_closing THEN "closed" ELSE engine
       ELSE UNCHANGED <<extension_context, engine>>
    /\ UNCHANGED <<is_closing, threads, start_graph, close_requests, runloop, t_queue,
                   t_state, is_close_triggered, err_before_ready, life, addon>>


-----------------------------------------------------------------------------
(* The thread of group g: its tasks.  They run the group's callbacks, which *)
(* the built-in extension group answers at once.                           *)

engine_side == <<engine, context, close_requests>>

Enter(x, state) == [ext_state EXCEPT ![x] = state]

\* ten_extension_thread_handle_start_msg_task: on_init of the group.
Start(g) ==
    /\ ThreadTask(g, "start", g, <<<<"group_init_done", g>>>>)
    /\ UNCHANGED <<engine_side, e_queue, runloop, t_state, is_close_triggered,
                   err_before_ready, life, addon>>

\* ten_extension_thread_on_extension_group_on_init_done: create the extensions, unless the
\* thread has been told to close.
GroupInitDone(g) ==
    /\ ThreadTask(g, "group_init_done", g, <<>>)
    /\ IF g \in is_close_triggered
       THEN UNCHANGED <<t_state, addon, e_queue>>
       ELSE /\ t_state' = [t_state EXCEPT ![g] = "CREATING_EXTENSIONS"]
            /\ addon' = addon \union {<<"create_ext", x>> : x \in ExtOf(g)}
            /\ e_queue' = IF NExt[g] = 0 THEN Append(e_queue, <<"find_info", g>>) ELSE e_queue
    /\ UNCHANGED <<engine_side, runloop, is_close_triggered, err_before_ready, life>>

\* The engine is told that the extensions exist, the failed ones left out.
AllCreated(g) ==
    /\ e_queue' = Append(e_queue, <<"find_info", g>>)
    /\ err_before_ready' = IF \E x \in ExtOf(g) : ext_state'[x] = "failed"
                           THEN err_before_ready \union {g}
                           ELSE err_before_ready

\* Faulty variant: an extension that was not created is not an answer.
CreatedOrLost(g, x) ==
    \/ ThreadTask(g, "ext_created", x, <<>>) /\ ext_state' = Enter(x, "INIT")
    \/ ThreadTask(g, "ext_failed", x, <<>>) /\ ext_state' = ext_state

Created(g, x) ==
    \/ ThreadTask(g, "ext_created", x, <<>>) /\ ext_state' = Enter(x, "INIT")
    \/ ThreadTask(g, "ext_failed", x, <<>>) /\ ext_state' = Enter(x, "failed")

\* Faulty variant: the engine is told of every extension.
EachExtensionCreated(g, x) ==
    /\ Created(g, x)
    /\ AllCreated(g)
    /\ UNCHANGED <<engine_side, runloop, t_state, is_close_triggered, path_timers, proxy, addon>>

\* on_addon_create_extension_done: the last answer completes the group.
ExtensionCreated(g, x) ==
    /\ Created(g, x)
    /\ IF \A y \in ExtOf(g) : ext_state'[y] # "none"
       THEN AllCreated(g)
       ELSE UNCHANGED <<e_queue, err_before_ready>>
    /\ UNCHANGED <<engine_side, runloop, t_state, is_close_triggered, path_timers, proxy, addon>>

\* ten_extension_thread_stop_life_cycle_of_all_extensions: an extension that owes an
\* on_xxx_done is stopped when it calls it.
StopLifeCycle(g, task) ==
    LET stops == {x \in Extensions(g) :
                     ext_state[x] \in {"ON_CONFIGURE_DONE", "ON_INIT_DONE", "ON_START_DONE"}}
    IN  /\ t_state' = [t_state EXCEPT ![g] = "PREPARE_TO_CLOSE"]
        /\ ThreadTask(g, task, g, IF Extensions(g) = {} THEN <<<<"group_deinit_done", g>>>> ELSE <<>>)
        /\ ext_state' = [x \in Extension |-> IF x \in stops THEN "ON_STOP" ELSE ext_state[x]]

\* ten_extension_thread_on_triggering_close.
TriggerClose(g) ==
    /\ IF g \in is_close_triggered
       THEN ThreadTask(g, "trigger_close", g, <<>>) /\ UNCHANGED <<t_state, ext_state>>
       ELSE \/ /\ t_state[g] = "INIT"
               /\ ThreadTask(g, "trigger_close", g, <<<<"group_deinit_done", g>>>>)
               /\ UNCHANGED <<t_state, ext_state>>
            \/ /\ t_state[g] = "CREATING_EXTENSIONS"
               /\ ThreadTask(g, "trigger_close", g, <<>>)
               /\ UNCHANGED <<t_state, ext_state>>
            \/ /\ t_state[g] = "NORMAL"
               /\ StopLifeCycle(g, "trigger_close")
    /\ is_close_triggered' = is_close_triggered \union {g}
    /\ UNCHANGED <<engine_side, e_queue, runloop, err_before_ready, path_timers, proxy, addon>>

\* Told to stop by the engine, which saw the flag of this thread set.
StopLifeCycleTask(g) ==
    /\ StopLifeCycle(g, "stop_life_cycle")
    /\ UNCHANGED <<engine_side, e_queue, runloop, is_close_triggered, err_before_ready,
                   path_timers, proxy, addon>>

\* on_configure of every extension, unless the thread has been told to close.
StartLifeCycle(g) ==
    /\ ThreadTask(g, "start_life_cycle", g, <<>>)
    /\ IF g \in is_close_triggered
       THEN UNCHANGED <<t_state, ext_state>>
       ELSE /\ t_state' = [t_state EXCEPT ![g] = "NORMAL"]
            /\ ext_state' = [x \in Extension |->
                                IF x \in Extensions(g) THEN "ON_CONFIGURE" ELSE ext_state[x]]
    /\ UNCHANGED <<engine_side, e_queue, runloop, is_close_triggered, err_before_ready,
                   path_timers, proxy, addon>>

\* Faulty variant: the callback is called whatever the extension's state.
CallbackAnyway(g, x, task, state) ==
    /\ ThreadTask(g, task, x, <<>>)
    /\ ext_state' = Enter(x, state)
    /\ UNCHANGED <<engine_side, e_queue, runloop, t_state, is_close_triggered,
                   err_before_ready, path_timers, proxy, addon>>

\* ten_extension_on_init and ten_extension_on_start, which an extension that is being
\* closed skips.
Callback(g, x, task, state) ==
    /\ ThreadTask(g, task, x, <<>>)
    /\ ext_state' = IF ext_state[x] \in CloseFlow THEN ext_state ELSE Enter(x, state)
    /\ UNCHANGED <<engine_side, e_queue, runloop, t_state, is_close_triggered,
                   err_before_ready, path_timers, proxy, addon>>

OnInit(g, x) == Callback(g, x, "on_init", "ON_INIT")
OnStart(g, x) == Callback(g, x, "on_start", "ON_START")

\* The path timers of x are closed: on_deinit.
TimersClosed(g, x) ==
    /\ ThreadTask(g, "timers_closed", x, <<>>)
    /\ ext_state' = Enter(x, "ON_DEINIT")
    /\ path_timers' = path_timers \ {x}
    /\ UNCHANGED <<engine_side, e_queue, runloop, t_state, is_close_triggered,
                   err_before_ready, proxy, addon>>

\* ten_env_delete_ten_proxy: the extension may have been waiting for this.
ProxyDeleted(g, x) ==
    /\ ThreadTask(g, "proxy_deleted", x,
                  IF ext_state[x] = "ON_DEINIT_DONE" THEN <<<<"del_extension", x>>>> ELSE <<>>)
    /\ proxy' = [proxy EXCEPT ![x] = "gone"]
    /\ UNCHANGED <<engine_side, e_queue, runloop, t_state, is_close_triggered,
                   err_before_ready, ext_state, path_timers, addon>>

\* The last extension to be deleted has them all destroyed.
DelExtension(g, x) ==
    /\ ThreadTask(g, "del_extension", x, <<>>)
    /\ ext_state' = Enter(x, "deleted")
    /\ addon' = IF \A y \in Extensions(g) : ext_state'[y] = "deleted"
                THEN addon \union {<<"destroy_ext", y>> : y \in Extensions(g)}
                ELSE addon
    /\ UNCHANGED <<engine_side, e_queue, runloop, t_state, is_close_triggered,
                   err_before_ready, path_timers, proxy>>

ExtensionDestroyed(g, x) ==
    /\ ext_state' = Enter(x, "destroyed")
    /\ ThreadTask(g, "ext_destroyed", x,
                  IF \A y \in Extensions(g) : ext_state'[y] = "destroyed"
                  THEN <<<<"all_extensions_deleted", g>>>> ELSE <<>>)
    /\ UNCHANGED <<engine_side, e_queue, runloop, t_state, is_close_triggered,
                   err_before_ready, path_timers, proxy, addon>>

\* on_deinit of the group.
AllExtensionsDeleted(g) ==
    /\ ThreadTask(g, "all_extensions_deleted", g, <<<<"group_deinit_done", g>>>>)
    /\ UNCHANGED <<engine_side, e_queue, runloop, t_state, is_close_triggered,
                   err_before_ready, life, addon>>

GroupDeinitDone(g) ==
    /\ ThreadTask(g, "group_deinit_done", g, <<>>)
    /\ e_queue' = Append(e_queue, <<"remove_thread", g>>)
    /\ UNCHANGED <<engine_side, runloop, t_state, is_close_triggered, err_before_ready,
                   life, addon>>

RemovedFromEngine(g) ==
    /\ ThreadTask(g, "removed_from_engine", g, <<>>)
    /\ addon' = addon \union {<<"destroy_group", g>>}
    /\ UNCHANGED <<engine_side, e_queue, runloop, t_state, is_close_triggered,
                   err_before_ready, life>>

\* Everything is cleaned up: the runloop stops, and refuses tasks from here on.
GroupDestroyed(g) ==
    /\ ThreadTask(g, "group_destroyed", g, <<>>)
    /\ runloop' = [runloop EXCEPT ![g] = "stopped"]
    /\ UNCHANGED <<engine_side, e_queue, t_state, is_close_triggered, err_before_ready,
                   life, addon>>

\* The thread's function ends, and asks the engine to join it.
ThreadExit(g) ==
    /\ runloop[g] = "stopped"
    /\ runloop' = [runloop EXCEPT ![g] = "exited"]
    /\ t_state' = [t_state EXCEPT ![g] = "CLOSED"]
    /\ e_queue' = Append(e_queue, <<"thread_closed", g>>)
    /\ UNCHANGED <<engine_side, t_queue, is_close_triggered, err_before_ready, life, addon>>

-----------------------------------------------------------------------------
(* What an extension calls, in its thread between two tasks: each on_xxx_done *)
(* that it owes, and ten_env_proxy_create.  It may call on_xxx_done from     *)
(* within on_xxx, which is the same as calling it right after the task.      *)

\* x calls the on_xxx_done that is due in the given state, and posts to its thread.
Calls(x, state, posts) ==
    /\ runloop[x[1]] = "running"
    /\ ext_state[x] = state
    /\ t_queue' = [t_queue EXCEPT ![x[1]] = @ \o posts]
    /\ UNCHANGED <<engine_side, e_queue, runloop, t_state, is_close_triggered,
                   err_before_ready, proxy, addon>>

\* The start flow goes on with the given state and tasks, or turns into the close flow.
Proceed(x, state, next, posts) ==
    IF x[1] \in is_close_triggered
    THEN Calls(x, state, <<>>) /\ ext_state' = Enter(x, "ON_STOP")
    ELSE Calls(x, state, posts) /\ ext_state' = Enter(x, next)

OnConfigureDone(x) ==
    /\ Proceed(x, "ON_CONFIGURE", "ON_CONFIGURE_DONE", <<<<"on_init", x>>>>)
    /\ path_timers' = IF x[1] \in is_close_triggered THEN path_timers
                                                     ELSE path_timers \union {x}

OnInitDone(x) ==
    /\ Proceed(x, "ON_INIT", "ON_INIT_DONE", <<<<"on_start", x>>>>)
    /\ UNCHANGED path_timers

\* Faulty variant: on_start_done does not look whether the thread is closing.
OnStartDoneUnaware(x) ==
    /\ Calls(x, "ON_START", <<>>)
    /\ ext_state' = Enter(x, "ON_START_DONE")
    /\ UNCHANGED path_timers

OnStartDone(x) ==
    /\ Proceed(x, "ON_START", "ON_START_DONE", <<>>)
    /\ UNCHANGED path_timers

\* The path timers are closed first; an extension without any is deinited at once.
OnStopDone(x) ==
    /\ IF x \in path_timers
       THEN /\ Calls(x, "ON_STOP", <<<<"timers_closed", x>>>>)
            /\ ext_state' = Enter(x, "ON_STOP_DONE")
       ELSE /\ Calls(x, "ON_STOP", <<>>)
            /\ ext_state' = Enter(x, "ON_DEINIT")
    /\ UNCHANGED path_timers

\* Faulty variant: the extension is deleted although proxies are left.
OnDeinitDoneNow(x) ==
    /\ Calls(x, "ON_DEINIT", <<<<"del_extension", x>>>>)
    /\ ext_state' = Enter(x, "ON_DEINIT_DONE")
    /\ UNCHANGED path_timers

\* With a proxy left, the extension is deleted when the proxy is.
OnDeinitDone(x) ==
    /\ Calls(x, "ON_DEINIT", IF proxy[x] \in {"held", "released"} THEN <<>>
                                                                  ELSE <<<<"del_extension", x>>>>)
    /\ ext_state' = Enter(x, "ON_DEINIT_DONE")
    /\ UNCHANGED path_timers

CreateProxy(x) ==
    /\ x \in Proxied
    /\ runloop[x[1]] = "running"
    /\ ext_state[x] \in (StartFlow \ {"INIT"}) \union {"ON_STOP", "ON_STOP_DONE", "ON_DEINIT"}
    /\ proxy[x] = "never"
    /\ proxy' = [proxy EXCEPT ![x] = "held"]
    /\ UNCHANGED <<engine_side, e_queue, runloop, t_queue, t_state, is_close_triggered,
                   err_before_ready, ext_state, path_timers, addon>>

\* ten_env_proxy_release, in whatever thread holds the proxy.
ReleaseProxy(x) ==
    /\ proxy[x] = "held"
    /\ proxy' = [proxy EXCEPT ![x] = "released"]
    /\ t_queue' = [t_queue EXCEPT ![x[1]] = Append(@, <<"proxy_deleted", x>>)]
    /\ UNCHANGED <<engine_side, e_queue, runloop, t_state, is_close_triggered,
                   err_before_ready, ext_state, path_timers, addon>>

-----------------------------------------------------------------------------
EngineNext ==
    \/ StartGraph
    \/ CloseTask
    \/ \E g \in Group : GroupCreated(g) \/ FindInfo(g) \/ RemoveThread(g) \/ ThreadClosed(g)

ThreadNext(g) ==
    \/ Start(g) \/ GroupInitDone(g) \/ TriggerClose(g) \/ StopLifeCycleTask(g) \/ StartLifeCycle(g)
    \/ AllExtensionsDeleted(g) \/ GroupDeinitDone(g) \/ RemovedFromEngine(g) \/ GroupDestroyed(g)
    \/ \E x \in ExtOf(g) :
          \/ ExtensionCreated(g, x) \/ OnInit(g, x) \/ OnStart(g, x) \/ TimersClosed(g, x)
          \/ ProxyDeleted(g, x) \/ DelExtension(g, x) \/ ExtensionDestroyed(g, x)

UserNext(x) ==
    \/ OnConfigureDone(x) \/ OnInitDone(x) \/ OnStartDone(x)
    \/ OnStopDone(x) \/ OnDeinitDone(x)

\* Every thread that was started is gone, and the engine.
Finished ==
    /\ engine = "closed"
    /\ \A g \in Group : runloop[g] \in {"none", "exited"}
    /\ UNCHANGED vars

Next ==
    \/ CloseEngine
    \/ EngineNext
    \/ \E g \in Group : AddonDone(g) \/ ThreadNext(g) \/ ThreadExit(g)
    \/ \E x \in Extension : UserNext(x) \/ CreateProxy(x) \/ ReleaseProxy(x)
    \/ Finished

Spec == Init /\ [][Next]_vars

\* Runloops run, addons answer, extensions call the on_xxx_done they owe and proxies are
\* released; nobody has to close the engine or to create a proxy.
FairSpec ==
    /\ Spec
    /\ WF_vars(EngineNext)
    /\ \A g \in Group : WF_vars(AddonDone(g)) /\ WF_vars(ThreadNext(g)) /\ WF_vars(ThreadExit(g))
    /\ \A x \in Extension : WF_vars(UserNext(x)) /\ WF_vars(ReleaseProxy(x))

-----------------------------------------------------------------------------
(* Properties.                                                             *)

EngineTasks ==
    {<<"start_graph", 0>>, <<"close", 0>>}
    \union {<<name, g>> : name \in {"group_created", "find_info", "remove_thread", "thread_closed"},
                         g \in Group}

ThreadTasks(g) ==
    {<<name, g>> : name \in {"start", "group_init_done", "trigger_close", "start_life_cycle",
                             "stop_life_cycle", "all_extensions_deleted", "group_deinit_done",
                             "removed_from_engine", "group_destroyed"}}
    \union {<<name, x>> : name \in {"ext_created", "ext_failed", "on_init", "on_start",
                                    "timers_closed", "proxy_deleted", "del_extension",
                                    "ext_destroyed"},
                         x \in ExtOf(g)}

Requests ==
    {<<name, g>> : name \in {"create_group", "destroy_group"}, g \in Group}
    \union {<<name, x>> : name \in {"create_ext", "destroy_ext"}, x \in Extension}

\* Every variable keeps its type; in particular no more threads are counted ready or
\* closed than there are groups.
TypeOK ==
    /\ engine \in {"running", "closed"}
    /\ e_queue \in Seq(EngineTasks)
    /\ extension_context \in {"none", "open", "closed"}
    /\ is_closing \in BOOLEAN
    /\ threads \subseteq Group
    /\ cnt \in [{"ready", "closed", "total"} -> 0..Cardinality(Group)]
    /\ start_graph \in {"none", "pending", "ok", "error"}
    /\ close_requests \in 0..MaxClose
    /\ runloop \in [Group -> {"none", "running", "stopped", "exited"}]
    /\ \A g \in Group : t_queue[g] \in Seq(ThreadTasks(g))
    /\ t_state \in [Group -> {"INIT", "CREATING_EXTENSIONS", "NORMAL", "PREPARE_TO_CLOSE",
                             "CLOSED"}]
    /\ is_close_triggered \subseteq Group
    /\ err_before_ready \subseteq Group
    /\ ext_state \in [Extension -> {"none", "failed"} \union StartFlow \union CloseFlow]
    /\ path_timers \subseteq Extension
    /\ proxy \in [Extension -> {"never", "held", "released", "gone"}]
    /\ addon \subseteq Requests

\* Everything closes from the bottom up: a context that closes has no threads left (asserted
\* at extension_context.c:185), and when the engine is closed every thread that was started
\* has ended and been joined, with all its extensions destroyed (extension_thread.c:177).
EngineClosesLast ==
    /\ extension_context = "closed" => threads = {}
    /\ engine = "closed" =>
           \A g \in Group :
               /\ runloop[g] \in {"none", "exited"}
               /\ \A x \in Extensions(g) : ext_state[x] = "destroyed"

\* Nobody leaves a task to, or posts one to, a runloop that has stopped: post_task_tail
\* would fail, which every caller asserts away, or the task would run on freed objects.
\* Only a repeated close is still there when the engine ends, or the first group if the
\* engine closed while that was being created (what becomes of it: README, section 7).
NoTaskIsLost ==
    /\ \A g \in Group : runloop[g] \in {"stopped", "exited"} => t_queue[g] = <<>>
    /\ engine = "closed" => \A i \in DOMAIN e_queue :
           e_queue[i] = <<"close", 0>> \/ \A g \in Group : runloop[g] = "none"

\* A ten_env cannot be destroyed as long as a ten_env_proxy of it has not been
\* (ten_env_proxy.c:149), whichever thread releases the proxy and whenever.
ProxyKeepsAlive ==
    \A x \in Extension :
        proxy[x] \in {"held", "released"} => ext_state[x] \notin {"deleted", "destroyed"}

LastCallback(state) ==
    CASE state \in {"ON_CONFIGURE", "ON_CONFIGURE_DONE"} -> "on_configure"
      [] state \in {"ON_INIT", "ON_INIT_DONE"} -> "on_init"
      [] state \in {"ON_START", "ON_START_DONE"} -> "on_start"
      [] state \in {"ON_STOP", "ON_STOP_DONE"} -> "on_stop"
      [] state \in {"ON_DEINIT", "ON_DEINIT_DONE", "deleted", "destroyed"} -> "on_deinit"
      [] OTHER -> "none"

Life == INSTANCE ExtensionLife WITH
    last <- [x \in Extension |-> LastCallback(ext_state[x])],
    owes <- {x \in Extension :
                ext_state[x] \in {"ON_CONFIGURE", "ON_INIT", "ON_START", "ON_STOP", "ON_DEINIT"}},
    gone <- {x \in Extension : ext_state[x] \in {"deleted", "destroyed"}}

\* Whenever the engine is closed, every extension gets its callbacks in order.
KeepsLife == Life!Spec

\* start_graph is answered when all the extension threads are ready, and with OK exactly
\* when no creation failed (extension_interface.c:90 and 118).
AnsweredMeansReady ==
    start_graph \in {"ok", "error"} =>
        /\ cnt.ready = Cardinality(Group)
        /\ start_graph = "ok" <=> err_before_ready = {}

\* start_graph is answered, whichever extensions fail.
StartIsAnswered == <>(start_graph \in {"ok", "error"})

\* Closing ends, with every extension stopped and every thread joined.
EngineCloses == is_closing ~> engine = "closed"

\* A thread that is told to close while it creates its extensions closes afterwards
\* (extension_thread.c:361).
CreatingEnds ==
    \A g \in Group :
        (g \in is_close_triggered /\ t_state[g] = "CREATING_EXTENSIONS")
            ~> t_state[g] # "CREATING_EXTENSIONS"
=============================================================================
