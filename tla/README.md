# TEN runtime: a verification development

This directory models the C runtime of the TEN framework (`core/src/ten_runtime`,
with the primitives of `core/src/ten_utils` it stands on) in TLA+. The rest of the
repository (the language bindings, the package manager, the designer, the demo
agents, vendored code) is listed in the inventory and left out.
Paths below are relative to `src/core/src/ten_runtime` unless they start elsewhere.

## 1. The system and its parts

An **app** runs any number of **engines**, one per graph. An engine owns an
**extension context**, which owns **extension threads**, one per extension group;
each thread runs an **extension group** and its **extensions**. Every app, engine and
extension thread has a runloop, that is a FIFO queue of tasks on a thread of its own
(an engine may share the app's); components talk by posting tasks to each other and by
putting messages in queues protected by locks. **Remotes** and **connections** carry
messages between apps. An extension sends commands, data and frames along the
graph; commands are answered by command results, which find their way back through the
**path tables**.

| Part | State | Operations | Hard behaviours | What makes it correct |
|---|---|---|---|---|
| path table (`path/`, `extension/internal/path_timer.c`) | IN and OUT paths, path groups, cached result | add IN/OUT path, group, process result, timeout, flush | results of several destinations in any order, late results, timeouts, handlers that send while the table is being flushed | a handler gets nothing after the completed result, every command completes once, groups leave whole, the table is empty at the end |
| extension (`extension/`) | life-cycle state, pending messages, path table, path timers | on_configure .. on_deinit_done, dispatch, handle_in_msg | asynchronous on_xxx_done, close before or in the middle of start, proxies still alive | callbacks in order and once, messages only between on_init_done and on_deinit, pending messages delivered or answered |
| extension group (`extension_group/`) | none but its addon's list of created extensions | on_init, create extensions, destroy extensions, on_deinit | creation is asynchronous and may fail | the created extensions are destroyed exactly once |
| extension thread (`extension_thread/`) | state INIT .. CLOSED, is_close_triggered, extensions, counters, pending messages | start, trigger close, start/stop life cycle, extension deleted, closed | close requested at any point of start-up, from another thread | stops once, only when all its extensions are deleted |
| extension context (`extension_context/`) | extension threads, counters of initialised and closed threads | start groups, close, on_close | close while groups are still being created | closed only after every thread has been joined |
| engine (`engine/`) | in-queue, is_closing, timers, remotes, orphan connections, has_uncompleted_async_task | start_graph, stop_graph, timer cmd, dispatch, close | close races start-up, remote creation and protocol migration | start_graph answered once, everything joined before it ends, close eventually ends |
| app (`app/`) | engines, orphan connections, in-queue, state | on_configure/init/deinit, create/delete engine, close | engines closing by themselves while the app closes | the runloop stops only when nothing is left, on_deinit once |
| connection, protocol, remote (`connection/`, `protocol/`, `remote/`) | migration state, attached target, is_closed flags | migrate, attach, close | a connection migrates from app to engine thread while it is read and closed | messages in order, no message lost in migration, closed bottom up |
| ten_env_proxy (`ten_env_proxy/`) | thread reference count, list in ten_env | create, acquire/release lock mode, notify, release | other threads hold a component open | a component ends only after the last proxy is released |
| timer (`timer/`) | times left, close flags | enable, disable, trigger, stop, close | close inside the trigger | bounded number of triggers, on_closed once |
| addon, addon_loader, extension_store, metadata, schema_store, msg, msg_conversion, global, common, test, binding | registries, property values, conversion rules | registration and lookup, data transformation | registration from several threads; mostly sequential data | |
| ten_utils (`../ten_utils`) | runloop, shared/weak pointers, ref, rwlock, events, containers, value, schema, log | | lock-free and lock-based primitives | |
| bindings go/python/nodejs/cpp | | | a second runtime's objects share the life of the C ones | |
| `core/src/ten_manager`, `core/src/ten_rust` | | package manager, graph tooling (Rust, TypeScript) | | |
| `ai_agents`, `packages`, `third_party`, `tests`, `tools`, `docs` | | | | |

### Interactions that matter

* engine -> extension thread: posts `trigger close`, `start life cycle`, hands it messages.
* extension thread -> engine: posts `find extension info` when its extensions are created,
  `removed extension` / `thread closed` when it stops; messages through the engine's in-queue.
* extension -> destination: a message, through the extension thread or the engine;
  a command creates an IN path at the destination and an OUT path at the source.
* destination -> source: command results, matched by command id with an OUT path.
* app -> engine: `stop_graph` and `close` as tasks; engine -> app: `engine_closed`, and
  messages in the app's in-queue. Everything that closes reports to its owner, and the owner
  looks each time whether it was the last.
* connection -> engine: after its first message a client's connection leaves the thread
  of the app (`connection/migration.c`, `engine/internal/migration.c`) and its socket goes
  from one libuv loop to the other.
* engine -> other app: a remote with a connection, a protocol, a stream and a retry timer, closed by
  calls downwards and callbacks upwards.
* shared state read without a lock: `is_close_triggered` of the extension thread, read by
  the engine thread (`engine/internal/extension_interface.c:241`).

### What is hard in it, component by component

The hazards, each at its line, are listed in `PROJECT.json`. In short:

* path table: one result handler, several destinations, and five sources of results (each
  destination, the timer, the flush) in any order; the handler may send while the table is
  being gone through.
* life of a graph: four kinds of threads that post tasks to each other, a close request
  that may come at every point of the start-up, a flag that two threads share without a
  lock, extensions that answer when they like, proxies held by other threads.
* lock mode: a thread is blocked by a mutex on purpose, and unlocks it by a task that it
  posted to itself.
* messages before and after the life of an extension: what is queued, in what order it is
  delivered, what is answered with an error.
* apps, remotes, connections: objects that close by themselves while their owner closes
  them, and a connection that changes threads between two messages.

## 2. Plan

Modules in the order in which they were written; a module names the parts it composes.

| | Module | Subject | State |
|---|---|---|---|
| 1 | `PathTable`, `CmdPromise`, `PathTableProofs` | the OUT half of the path table; what it promises to the sender; proofs | done |
| 2 | `GraphLifecycle`, `ExtensionLife` | start and close of a graph; what it promises to an extension | done, proofs: 8 |
| 3 | `LockMode`, `LockModeProofs` | lock mode and notify of `ten_env_proxy`; proofs | done |
| 4 | `CmdRouting` | engine in-queue, dispatch within and between extension threads, pending messages before on_init_done, refusals in and after on_deinit | done, proofs: 9 |
| 5 | `AppLife`, `AppLifeProofs` | the app: its start, engines and clients that come and go, stop_graph, close, on_deinit; proofs | done |
| 6 | `RemoteConnect`, `RemoteConnectProofs` | start_graph across apps: remotes, protocols, retries, closing; proofs | done |
| 7 | `Migration`, `MigrationProofs` | a client's connection moves from the app to an engine | done |
| 8 | `TaskQueues`, `GraphLifecycleProofs` | what the proofs need to know of queues of tasks; the invariants of `GraphLifecycle` and its refinement of `ExtensionLife` | done |
| 9 | `CmdRoutingProofs` | `TypeOK`, `DeliveredInOrder` and `NothingIsDropped` for any number of threads and requests | done |
| 10 | `CmdJourney` | `CmdRouting` composed with the IN and OUT halves of two path tables: every command is answered once, end to end | planned |
| 11 | `RunloopTimer` | `timer/timer.c` over the timers of the runloop, for the timer command | planned |
| 12 | rwlock, reflock, shared_event, ref and smart_ptr of `ten_utils`; env_tester; the asynced protocol | | planned, last |

Abstract specifications: `CmdPromise` (done), `ExtensionLife` (done), "each command gets
one final result" for `CmdJourney` (`CmdPromise` again). In-order delivery is stated
directly, as an invariant of `CmdRouting` and of `Migration`.

Every invariant that a run checks is now a theorem, some under a hypothesis that section 6 names. Theorems worth proving next: those of the modules
10 and 11, when they are there.

Related conditions are conjuncts of one property, named for what they say together
(`TableIsTidy`, `AssertionsHold`, `NothingFreedIsUsed`, ...). Violations that are
established have no run of their own any more: their hazards stay listed, and
section 7 keeps what they showed.

## 3. The modules

### PathTable

One extension's OUT paths. A command is a number, an OUT path a pair (command, index of
the destination); a path group is the set of the paths of one command with more than one
destination, ordered as in the list `members` (the last one is `last_in_group`).

| Variable | In the code |
|---|---|
| `out_paths` | `ten_path_table_t.out_paths`, the paths without an id or a clock |
| `has_received_final_cmd_result`, `cached_cmd_result` | fields of `ten_path_t` |
| `state` | `ten_extension_t.state`, cut down to what `SendCmd`, the timers and the flush look at |
| `wire`, `to_return` | results of each destination on their way, and how many it may still return: its IN path |
| `expired`, `batch` | the local list of `ten_extension_out_path_timer_on_triggered` and of the flush: ERROR results made for paths and still to be fed |
| `handled` | the calls of the command's result handler, with status and `is_completed` |
| `sent`, `errored` | history: which commands were sent, which paths have seen an ERROR |

`ProcessCmdResult` is `ten_path_table_process_cmd_result` for an OUT path, one disjunct per
branch (`DiscardResult`, `SingleResult`, `FirstError`, `LastOk`, `EachResult`). It is taken
for a result that comes from a destination (`HandleInResult`), and for each synthesised
result of a batch (`FeedError`); between two of them the handler may send (`SendCmd`),
which is how handlers that send from within the loop are covered. The clock is
abstracted to "the timer finds the set X of unexpired paths expired, at any time", which
includes a clock that jumps.

A result that breaks the schema of the sender is turned into an ERROR by the extension that
receives it (`ValidatedStatus`), for the paths in `InvalidReturn`, after the path table has
been asked.

`CmdPromise` is what the sender of a command may rely on: any number of calls of the
handler, exactly one of them completed, and that one the last.

### GraphLifecycle

One engine with its extension context, extension threads, groups and extensions; the app's
thread as far as it answers requests for instances of addons and tells the engine to close.

| Variable | In the code |
|---|---|
| `e_queue`, `t_queue` | `ten_runloop_common_t.tasks` of the engine's and of each thread's runloop; a task is a pair (name, what it is about) |
| `engine`, `is_closing` | the engine's runloop stopped; `ten_engine_t.is_closing` |
| `extension_context`, `threads`, `cnt` | `ten_engine_t.extension_context`, its list `extension_threads`, and `extension_threads_cnt_of_ready`, `.._of_closed` and the total at close |
| `start_graph` | the start_graph command kept in `original_start_graph_cmd_of_enabling_engine`, and the result it got |
| `runloop`, `t_state`, `is_close_triggered` | life of the thread, `ten_extension_thread_t.state`, `.is_close_triggered` |
| `ext_state`, `path_timers` | `ten_extension_t.state`, with `none`/`failed` before it exists and `deleted`/`destroyed` after; whether the list `path_timers` is not empty |
| `proxy` | the list `ten_env_t.ten_proxy_list`, with one proxy |
| `addon` | requests posted to the app's thread and not answered yet |
| `err_before_ready` | `ten_extension_thread` groups with an error in `err_before_ready` |

Each task of a runloop is an action that takes its task from the head of the queue, and
does all the handler does, posting what it posts. What is direct calls in the code is part
of the action of the task that makes them. The actions of an extension
(`OnConfigureDone` ... `OnDeinitDone`) run in its thread between two tasks: an extension may
call `on_xxx_done` within `on_xxx`, later from a message handler, or through a notify.

Left out or simplified: the engine has a runloop of its own (an engine in the app's
runloop behaves the same, except that there is no runloop to stop); no remotes and no
timers, which would only delay the closing further; an extension has both path timers or
none; one proxy per extension; groups of other apps. A runloop that has stopped refuses
tasks (`runloop.c:664`), which is why `NoTaskIsLost` is a property.

`CloseFrom` says when the app may close the engine: `started` (before the graph is being
started, and once its threads run), or `answered` (once start_graph has its result).

`ExtensionLife` is what an extension may rely on: on_configure, on_init, on_start, on_stop,
on_deinit in this order, each at most once, each after the `on_xxx_done` of the one before,
on_init and on_start possibly skipped, deleted after on_deinit_done only.
`KeepsLife` states that `GraphLifecycle` implements it.

### LockMode

One extension thread, any number of outer threads and proxies.

| Variable | In the code |
|---|---|
| `lock_mode_lock`, `in_lock_mode` | fields of `ten_extension_thread_t` |
| `queue` | the thread's runloop: acquire tasks (posted to the front), release tasks, and functions of `notify(async)` |
| `lock`, `acquired` | `ten_env_proxy_t.lock`, `.acquired_lock_mode_thread` |
| `completed` | `ten_acquire_lock_mode_result_t.completed`, per waiting thread |
| `pc`, `ext` | where in `ten_env_proxy_acquire_lock_mode`, `_notify`, `_release_lock_mode` each outer thread is, and what the extension thread does |

A step ends where a thread takes or gives up a mutex, waits for an event or takes a task.
The acquire task is one step up to `ten_mutex_lock`: in between it sets a flag and an event
that nobody else looks at before the event is set. A proxy is used by outer threads only
(`ten_env_proxy.c:235` says so), and the extension does not wait for an outer thread; an
extension that does either can block itself for ever (hazard at
`acquire_lock_mode.c:120`).

### CmdRouting

The messages of one graph, with as much of its start and close as changes where they go.
A request is a record (kind, sender, destination, number); a command result has the number of its
command, which is all of the command id that matters.

| Variable | In the code |
|---|---|
| `in_msgs`, `taken`, `put_back` | `ten_engine_t.in_msgs`, and the lists `in_msgs_` and `put_back_msgs` of `ten_engine_handle_in_msgs_sync` |
| `is_ready`, `cnt_of_ready`, `is_closing`, `extension_context`, `threads` | the fields of the engine and of its extension context |
| `is_remote` | whether the client's connection has become a remote |
| `t_state`, `init_stage` | `ten_extension_thread_t.state`, with `created` while its extensions exist and do not run and `destroyed` until it stops; `.pending_msgs_received_in_init_stage`, by destination |
| `e_queue`, `t_queue` | the tasks of the runloops |
| `life`, `pending`, `in_paths`, `out_paths` | `ten_extension_t.state` as far as messages depend on it, `.pending_msgs_received_before_on_init_done`, and the two halves of its path table, as sets of commands |
| `flushing`, `inside` | the thread is in `ten_extension_flush_all_pending_msgs_received_in_init_stage` of one extension, and whose callbacks that has called so far: only their code may send meanwhile |
| `delivered`, `answered`, `lost`, `sent` | history |

The engine handles the messages it has taken one by one (`HandleTaken`) while extension threads
append to `in_msgs`; `PutBack` puts what it could not handle in front of what came
meanwhile. A call within a thread is part of the action that makes it: `SendRequest`
includes `ten_extension_handle_in_msg` of the destination, `ReturnResult` the end
of the sender's OUT path. What is kept in the init stage of the thread or by the extension itself
(`Kept`, in this order) is gone through message by message (`Flush`). Each is delivered, and its callbacks may send; or, after
on_deinit_done, refused (`Leave` begins this), and the deletion of the extension is posted after the last
one. Meanwhile the thread does nothing else; the engine and the other threads go on. The thread keeps one list for all its extensions;
the model has one for each destination, since a flush takes the messages for one extension and leaves the order of the others alone.

Left out: conversion of messages, messages for the app, the engine or other apps, commands with
several destinations and path timers (`PathTable` has them), a start that fails, a close before
the engine is ready (`GraphLifecycle` has both), and a remote that closes by itself. An engine that is
asked for the result of a command that is not start_graph while it is not ready drops it, as it does
without assertions.

`lost` names the commands whose result is dropped: those that an extension has got and
forgets in on_deinit_done (its IN paths are removed, not answered), results that the engine gets too early, and commands
of the client that come before there is an extension context.

### AppLife

One app with its engines, an endpoint, its clients, and perhaps one `ten_env_proxy`.

| Variable | In the code |
|---|---|
| `config` | `one_event_loop_per_engine`, `long_running_mode`, and whether there is a uri to listen at: any combination |
| `state`, `user`, `deinits` | `ten_app_t.state`; the on_xxx_done() that the app's code owes; calls of on_deinit |
| `loop`, `tasks`, `draining` | the app's runloop and its tasks; that its thread is amidst them, so that no socket is looked at (`LooksAtSockets`) |
| `in_msgs`, `batch` | `ten_app_t.in_msgs`, and the list that `ten_app_handle_in_msgs_sync` has taken out |
| `engines`, `e_state`, `e_tasks`, `cmd_stop_graph` | `ten_app_t.engines`; of each engine what the app sees: running, told to close, its runloop stopped, its thread gone; its tasks, and the field `cmd_stop_graph` |
| `endpoint`, `client`, `proxy` | `endpoint_protocol`; the clients, from accepted to closed (`orphan_connections`); the list of proxies |
| `told`, `late`, `refused`, `answered` | history: everything was told to close; what came after that; posts that were refused; stop_graph commands that were answered |

An engine is here what `GraphLifecycle` promises: told to close, it closes. With
`one_event_loop_per_engine` it has tasks of its own; without, its tasks are among those of
the app (`<<"engine", e, task>>`). Everything that closes ends with `ProceedsIfClosing`,
which is `ten_app_proceed_to_close`: in a closing app it calls on_deinit when
`CouldBeClose` finds nothing left. Of the messages for the app, start_graph,
stop_graph, close_app and the result of a stop_graph are modelled.

`CloseFrom` says in which states another thread may call `ten_app_close`. The code takes the call at any time, and only `app_early`
allows that: it shows that the start undoes such a close (section 7). In `app` another thread waits for ON_INIT_DONE; what
closes the app in its own thread (a close_app command of an engine or of a client, the last engine, a step of the start that
fails) does so whenever it runs, in on_init too.

The test and the assignment of `ten_app_on_configure_done` and of `ten_app_on_init_done` are one step. The code takes no lock around
them, so that a close by another thread between the two is lost as well: `app` has no such close,
`app_early` shows the same loss at the steps around them.

Left out: several proxies; an
endpoint that cannot listen, which the code ignores; the migration of a client to an engine
with a runloop of its own (`Migration`).

### RemoteConnect

One engine that starts a graph with parts in other apps. Everything happens in its thread: tasks,
sockets and timers, and handles that have been closed take turns (`phase`), as libuv orders them.

| Variable | In the code |
|---|---|
| `engine`, `is_closing`, `uncompleted` | the engine, `.is_closing`, `.has_uncompleted_async_task` |
| `extension_context`, `start`, `waiting` | whether it was created; the start_graph command and the OUT paths of its parts |
| `creating` | protocols that the app's thread is creating (`ten_connection_create_protocol` .. `protocol_created`) |
| `conn` | per app the chain `ten_remote_t`, `ten_connection_t`, `ten_protocol_integrated_t` with `retry_timer` and the connect contexts, `ten_stream_t`, and the transport that is connecting |
| `tasks`, `phase` | the runloop |

The helpers of the first part are functions from a chain to a chain, one per function of
the code that calls down or back up: `RemoteClose`, `ConnectionClose`, `ProtocolClose`,
`OnServerConnected`, `FinallyConnected` and so on; the tasks they post travel along in `posts`. An action
applies them to one chain, and `Become` posts and goes on to the engine when that frees the remote.

An attempt fails at once (`Hopeless`), fails later, or succeeds; the first one closes the protocol or
begins the retries, and each retry is a round of the timer. The peer may break the
connection; a command may fail to be sent; the other app answers ok, error, or that the
connection is a duplicate (in which case the part that runs is the other connection's).

Left out: the other connection of a duplicate, the lookup of a protocol that has no addon,
messages after the start.

### Migration

One client, one engine, and the socket between them.

| Variable | In the code |
|---|---|
| `script`, `read`, `hung_up` | what the client sends, as kinds of messages; how much of it was read; the end was read |
| `own_loop` | `engine->has_own_loop` |
| `stream`, `reading` | `ten_protocol_integrated_t.role_facility.communication_stream`: in which loop it is, whether it reads |
| `migration_state`, `attach_to` | fields of `ten_connection_t` |
| `in_msgs` | `ten_protocol_t.in_msgs` of the integrated protocol: messages put aside |
| `moving`, `carried`, `is_cleaned` | where the handshake of `ten_utils/io/.../stream/migrate.c` is; the command that goes along; `on_cleaned`'s event |
| `engine_msgs`, `tasks`, `protocol` | `ten_engine_t.in_msgs`; the tasks of the two runloops; the protocol's life |
| `handled`, `lost`, `reset` | history: messages that arrived, those that met an assertion; that a graph was not found |

`Read` hands the next pieces of the script to `OnInputs`, which does what
`ten_protocol_on_inputs_based_on_migration_state` does in each state: the first message alone
(`FirstMsg`, with one disjunct per thing the app may do with it) or all of them
(`LaterMsgs`). `OnCleaned` takes up what was put aside. What was read is never parsed: a
piece is any number of messages, and a message is its place in the script.

## 4. The runs

| Run | What it asks | Instance |
|---|---|---|
| `path` | safety of path groups, which result a group answers with, every command completes, refinement of `CmdPromise` | two commands at a time: two groups of two, one per policy, or a group under FIRST_ERROR_OR_LAST_OK and a single command whose destinations return one partial result each; the last result of a FIRST_ERROR_OR_LAST_OK group breaks the schema |
| `graph_close` | safety of closing; refinement of `ExtensionLife` | groups of two and one extensions, one of which may fail to be created and may hold a proxy; close requested twice, before the start or at any time after the threads run |
| `graph_live` | start_graph is answered rightly, closing ends, nothing else ever stops | as `graph_close`, closed after the answer |
| `graph_race` | violation, section 7 | |
| `lock_mode` | mutual exclusion, the assertions of the lock mode, progress | three outer threads, two of which share a proxy, two rounds each, one posted function at a time |
| `routing` | nothing overtakes between threads; each open command is in one place, or known to be lost; a thread ends with nothing kept | two extensions in a thread, one in another; two requests of one of them or of a client, commands or data, to anybody or to an unknown name; a task queue of one |
| `routing_live` | no command stays on its way | two threads with an extension each, one command from each |
| `app` | on_deinit when nothing is left, then and not before; nobody posts to a runloop that has stopped; closing ends, stop_graph is answered | two graphs, one of which starts by itself, one client, a proxy, one command of an engine; every configuration; another thread closes it once it has started |
| `app_early` | violation, section 7 | as `app`, closed by another thread at any time |
| `connect` | a chain is closed bottom up, whoever waits is told once, nothing freed is used; start and close end | two other apps, one tried three times, the other twice; one close |
| `migration` | order, nothing lost, one thread at a time, the close comes last; everything read arrives | every script of up to four messages of three kinds, cut into every sequence of pieces; the engine with a loop of its own and without |
| `migration_lost` | violation, section 7 | two commands, the engine in the app's loop |

The bounds, and why they are enough: two commands are needed because a batch of expired
paths may span commands and because a handler may send while the first one is completed;
a group of two has a last and another member, which is all `last_in_group` tells apart;
one partial result separates "a result" from "the final result". Two groups, of
different sizes, make the counters of threads and of extensions differ; two extensions in
one group let one of them stop, fail or be held open while the other goes on; two close
requests show that the second is harmless. Three outer threads and two proxies have a pair that
shares a proxy and a pair that does not, and a second round begins while the extension
thread is still blocked by the first. In `CmdRouting` order is about two requests of one
sender, which is what the bound allows; a third extension makes the flush of one
extension call another of its thread; a queue of one makes every further data message find it full;
commands of both extensions in `routing_live` cross each other's start and close.

In `AppLife` two engines are what it takes for one to be the last and for one to stop the other;
one client may come, stay or go around every step of the close; the app may be closed several
times, by its own code, the client, an engine, and the end of the last engine. In
`RemoteConnect` two apps are enough for the flag `has_uncompleted_async_task` to be shared, for one to have
answered while the other is being tried, and for `waiting` to shrink; two retries have a
first and a last, and one retry is both. In `Migration` four messages are a first one, what
comes in the same piece, what comes while the connection moves, and what comes after.

`Sendings` bounds the requests of `CmdRouting`, and of `PathTable` the commands that go together: four are declared, and an
extension sends the first two or the last two, which puts both pairs into one run. `MaxPartial`, `MaxClose`, `MaxRounds`, `MaxWork`, `MaxRequests`
and `MaxRetries` (which the code has as `max_retries`) are the bounds on counters; the
theorems of section 6 hold for all values of all of them, and for scripts of any length of `Migration`.

Deadlock is checked where the system is not meant to stop in the middle (`graph_live`, `lock_mode`).
`PathTable` and `CmdRouting` stop when everything has been sent and closed, `AppLife`, `RemoteConnect` and `Migration`
when everything is closed, and `graph_close` includes
the closes that get stuck (section 7): those runs do not check it.

`graph_close` does not close between the beginning of the start and the existence of all the runloops (`CloseFrom`):
there the engine posts to a runloop that does not exist (section 7), and nothing after that
means anything.

## 5. Fairness

* `PathTable`: weak fairness of what the runtime does by itself: results on the wire are
  handled (`HandleInResult`), the timer goes on finding expired paths (`OutPathTimer`), a
  batch is fed to its end (`FeedError`), and the extension reaches on_configure_done and
  on_deinit_done, as `EngineCloses` and the users' duty to call `on_xxx_done` give. There is
  none for the destinations: `EveryCmdCompletes` holds although they may never answer.
* `GraphLifecycle`: weak fairness of the engine's runloop, of each thread's runloop and exit, and of
  the app's answers, since a runloop whose queue is not empty runs its next task; of each
  extension's `on_xxx_done`, which the API obliges it to call; and of the release of
  proxies. There is none for `CloseEngine` or `CreateProxy`: nobody has to close the engine,
  and `StartIsAnswered` and `EngineCloses` do not depend on it.
* `CmdRouting`: weak fairness of the runloops, one step of an extension thread after the other, and of each extension's
  `on_xxx_done` and the release of its proxy. Nobody has to send, to return a result or to
  close the engine: `CmdArrives` says that a command leaves the way, and an extension that
  has got it may keep it.
* `LockMode`: weak fairness of the extension thread and of each outer thread inside the
  three functions, and strong fairness of `ReleaseLockMode`: a thread that has acquired the
  lock mode releases it after some number of functions. A mutex that is free is given to some waiting
  thread; since each thread has a bounded number of rounds, the extension thread cannot be
  passed over for ever. With threads that never stop acquiring, an unfair mutex could do that.
* `AppLife`: weak fairness of the app's thread and of each engine's, of the end of an engine that was told to close
  (`EngineCloses` of `GraphLifecycle`), of the on_xxx_done() the app owes, and of the release of its
  proxy. Nobody has to send, connect, leave or close.
* `RemoteConnect`: weak fairness of the parts of the runloop, of the app's thread that creates protocols, of the
  operating system, which reports the end of each attempt, and of the other app, which answers,
  breaks the connection or cannot be reached. `StartEnds` says what happens otherwise: a
  close, or a peer that leaves without an answer (section 7).
* `Migration`: weak fairness of both threads' tasks, of the handshake and of the closing of
  streams. The client need not send anything nor hang up.

## 6. What is proved

All proofs hold for every value of the constants that the named assumptions admit.

`PathTableProofs` (from `PathTableAssumption`): `TypeCorrect`, `CompletedIsLast`,
`TableStaysTidy` (from `CompletedExactlyWhenGone`, `GroupsStayWhole` and
`FlushEmptiesTable`), `FirstErrorOrLastOkHolds`, the invariant they share (`Invariance`), and `PathTableKeepsPromise`: the
table implements `CmdPromise`, step by step. None of these properties is inductive
alone. The inductive invariant `IInv` is `TypeOK`, `CmdInv(c)` for each command, and
`FlushInv`. `CmdInv(c)` says that the paths of a command are all there or all gone, that they
are there exactly while it has been sent and is not completed, that a completed call is the last, and, for
a FIRST_ERROR_OR_LAST_OK group, that an open group has handed nothing to its handler, has
seen no ERROR and keeps a result as soon as its last member is final
(so the clone of the cached result never meets NULL). `FlushInv` says that after
on_deinit_done every path that is left without a final result is in the batch. A step changes the paths
of one command only, so the proof takes one command at a time.

`LockModeProofs` (from `LockModeAssumption`): `MutualExclusion`,
`AssertionsAlwaysHold`, `TypeCorrect`. Mutual exclusion is not inductive: it rests on who holds the
mutex (`HolderInv`), on what the flag says about the extension thread (`ExtInv`), on what
an outer thread knows (`OuterInv`), on there being one release task at most, and none
together with an acquire task (`QueueInv`), and on what a proxy remembers (`ProxyInv`).

`MigrationProofs` (from `MigrationAssumption`), for scripts of any length, cut into any pieces:
`MigrationLosesNothing`, `MigrationKeepsOrder` (what has arrived is the beginning of the
script), `MessagesStayInOrder`, `CloseComesLast`, `OneThreadAtATime` and `TypesCorrect`. Order
and loss are not inductive: whether a message comes too early depends on which tasks are queued
behind which, and on what the protocol has put aside. The invariant `MInv` therefore says that a
connection that moves is in one of five phases (`Idle`, `Shaking`, `Attached`, `Linked`,
`Served`) and, for each, exactly which messages are where and which tasks are queued; `SInv` does the same for a
connection that stays, until a message finds no engine. There is one lemma per phase: from it, a
step leads to the same phase or to the next one. `OneThreadAtATime` also speaks of the time after a message
has found no engine, where the phases say nothing; it rests on `Turns`: the task that cleans is the last of the app's
thread, because the socket is not read while the connection moves.

`TaskQueues` has no program of its own: it states what the proofs about runloops need to know of a queue
(`Has`, `Once`, `Precedes`) and what a handler does to it that takes its first task and posts others
(`Moves`), with the lemmas that relate these to `Tail`, `Append` and `\o`.

`GraphLifecycleProofs` (from `GraphLifecycleAssumption`), for any number of groups, extensions and close requests:
`TypeCorrect`, `ClosingOrder` (`EngineClosesLast`), `TasksAreDone` (`NoTaskIsLost`), `ProxiesAreSafe`
(`ProxyKeepsAlive`), `LifeIsKept` (the refinement `KeepsLife`) and, for an app that waits for the answer to
start_graph before it closes the engine (`CloseFrom = "answered"`; section 7 says what happens otherwise),
`AnswerCorrect`. None of them is inductive: whether a task finds what it expects depends on everything that its group
has done before. `LifecycleInv` says that each group is in one of twenty places, listed in the module from "nothing has
been asked for" to "the thread has been joined". `At(g, p)` says which tasks about g and its extensions may be in the two
runloops, which of them once, and which before which; which requests the app's thread may
have; and the states of the thread and of the extensions. `EngineAt` says what the places of all the groups mean
for the engine: that they start together, that a close meets none of them or all, that the counters count them, and
whether start_graph has been answered. The places are chosen by an existential quantifier, which the proof
instantiates at each step: `[place EXCEPT ![g] = b]` for a step of one group, all of
them at once when the threads start or are told to close. There is one lemma per action, which ends in `Advances`. Two
groups do not see each other (`Spares`, `TouchesOne`), so a step is about one of them, or about none.
The refinement follows from `AllFlow`: the state of an extension changes only along `NextStates`,
because the task that changes it is queued only in the state before.

`AppLifeProofs` (from `AppLifeAssumption` and the hypothesis `ClosedInTime` below), for any number of engines, clients and
commands: `TypeCorrect` (which needs no hypothesis), `DeinitCorrect` (`DeinitWhenNothingLeft`) and `PostsCorrect`
(`PostsSucceedAlone`). `LifeCorrect` is the invariant: before on_init nothing has happened (`Fresh`), and later
(`Later`) six facts relate the app's state, the tasks in its runloop and in those of its engines, and what is left of
engines, clients and endpoint. `Steps(took, posts)` says what a step does to the runloops, so that
each action is examined for the tasks it takes and posts only; `NothingComes` says that an app which has called on_deinit
has no task left that could bring something new. `ClosedInTime` takes from
`CloseFrom` the two states in which a task of the start is queued, INIT and ON_CONFIGURE_DONE: the code forgets a close that
comes then (`app_early`, section 7), and neither theorem holds for it. They do hold, beyond what `app` checks, for another thread that
closes the app while on_configure or on_init is under way.

`CmdRoutingProofs` (from `CmdRoutingAssumption`), for any extensions in finitely many groups, any queue size and any
numbers of requests: `TypeCorrect`, `OrderIsKept` (`DeliveredInOrder`) and `NothingDropped` (`NothingIsDropped`). `RoutingInvariant` is the
invariant they share. `Typed` says which messages and tasks can be in which queue. `Control` says
which task carries a thread or an extension on in each state, that the engine is ready only when every thread has
reported, and that a thread which ends has nothing queued or kept. `WereSent` says that the number of whatever is under way was
used by its sender, so that a new request is like none of them. `InSequence` looks at the way to an extension as a list of places, from
what is delivered back to `in_msgs`: the numbers of one sender ascend along it, whichever place a message
is in; a step moves messages from the end of one place to the next, which keeps that order. Only extensions of other
threads count as senders: within a thread a message is a call, which goes past what a flush has still to deliver, and the client's
messages come to the engine without a queue once its connection is a remote. `Accounted` counts the places where a command that is waited for can be, itself or as its result: exactly one, or none
when it is `lost`. A step that answers, refuses, forwards or keeps a command takes it out of one place and puts it in
another. Neither order nor the count is inductive without `Control`: without it a message could reach a thread that is gone, or an extension
could start to run while older messages for it are kept.

`RemoteConnectProofs` (from `RemoteConnectAssumption`), for any finite set of apps, any numbers of retries and of close
requests: `TypeCorrect`, `ClosesLast` (`EngineClosesLast`), `AnswersOnce` (`AnsweredOnce`), `FreedIsNotUsed`
(`NothingFreedIsUsed`) and `EnabledLast` (`EnabledWhenAllAre`). `ConnectInvariant` is what they share. `Good(r, c)` is about one
chain: a remote is freed exactly when its protocol has closed, which then has neither stream nor timer nor anything
uncompleted (`ChainIs`); the context is armed as long as the remote has not been told, and the protocol does not close
before (`ContextIs`); an attempt and a started timer have the context, and exclude each other (`AttemptIs`, `TimerIs`). `Tied(r)` is
about the tasks for it: a timer is closed by one task, which finds it there, and so does a task that stops it, but for the chains that
`Exempt` names. `AnswersAre`, `NoneForgotten` and `ClosedIs` are about all the chains. The functions from chain to chain
(`ProtocolClose`, `Answered`, ...) are characterised first, one lemma each, by the fields they change and the tasks they post; then
each action moves its chain so that `Good` is kept (`Moving`; `Calls` for a callback, which may not take a timer from under
its tasks). `MovedKeeps` lifts that to the whole state, once for all the actions on one chain. `CloseRemotesKeeps` is the step that
moves all chains at once. `AnsweredOnce` is not inductive without `Tied`: a task that closes a timer which is not there would lead
to a callback that tells the remote, and the attempt under way would tell it again.

Only model-checked: all liveness properties, which are beyond the prover.
`TypeOK` of `LockMode` is proved only.

## 7. Where the code and its comments disagree

* `graph_race`: a thread told to close while it creates its extensions, just
  before it is told to start them, does neither (`engine/internal/extension_interface.c:241`).
* `app_early`: `ten_app_close` is said to initiate the closing of the app, from any thread
  (`app/close.c:130-134`), and the handler of SIGINT and SIGTERM calls it at any time (`global/signal.c:82`). While a task
  of the start is queued it sets CLOSING and queues its task; then `ten_app_on_configure` or
  `ten_app_on_init` sets the state back (`app/ten_env/on_xxx.c:341`, `360`). The close task closes the engines and
  the endpoint that are there by then, but nobody finds the app closing: it goes on without them, and `ClosingEnds` fails.
* `migration_lost`: an engine in the app's loop upgrades the connection before it queues the
  first message (`connection/migration.c:64`), against the comments at
  `connection/migration.c:117` and `engine/internal/migration.c:79`: what is read meanwhile, or
  came in the same piece, meets `TEN_ASSERT(0)` (`connection/connection.c:340`, `434`).

Established without a run of their own.

Commands and their results:

* A member of an EACH_OK_AND_ERROR group that has answered finally is answered for again by
  the timeout or the flush (`extension/internal/path_timer.c:80`), whatever
  `has_received_final_cmd_result` says.
* `send_cmd` without `enable_multiple_results` promises one result (`ten_env/internal/send.c:210`); with a single
  destination there is no group to hold partial results back (`path/path_table.c:644`).
* An engine that is not ready takes every command result for one of start_graph, but an
  extension thread may send it the error result of a command with
  an unknown destination (`engine/msg_interface/cmd_result.c:214`).
* The first command of a connection waits for the engine to be ready, the
  second does not and is dropped (`engine/internal/remote_interface.c:788`, against `connection/migration.c:116`).

Graphs:

* If the engine sees in time that a thread was told to close while it creates its extensions,
  the thread is told to stop
  extensions that are in state INIT, which are skipped (`extension_thread/on_xxx.c:163`).
* Threads that leave the list early let the others make up the number of ready threads: start_graph
  is answered OK for a graph that is closing (`engine/internal/extension_interface.c:114`).
  `AnsweredMeansReady` with `CloseFrom = "started"` shows it.
* A close between the creation of two groups posts to a runloop that is
  NULL (`extension_context/extension_context.c:157`): that time is left out by `CloseFrom`.
* A graph without extension groups, or whose groups all belong to other apps, never answers start_graph
  (`extension_context/extension_context.c:506`); the instances all have a group.

Apps:

* The release of a `ten_env_proxy` of a closing app stops its runloop at once
  (`ten_env/ten_proxy.c:71`), and engines then post to a runloop that has stopped, against the
  assertion at `app/msg_interface/common.c:612`. `PostsSucceedAlone` is limited to apps without a proxy for that reason.
* In an app without endpoint, on_deinit may be called twice: by the report of the last
  engine and by the close task behind it (`app/close.c:252-257`, `118-120`); `DeinitOnce` allows it.
* A close before the app's runloop exists is an assertion (`app/close.c:170`).
* A close after the start has undone one may call on_deinit again.
* What joins the app after it has told everything to close is never told (`late`).
* A second stop_graph for a graph overwrites the first; a stop that reaches the app after the
  engine is gone is answered by an error, one that reaches the engine too late not at all.

Remotes:

* A retry that is still connecting when its protocol closes calls back with a
  context and a protocol that are freed (`protocol/integrated/protocol_integrated.c:638`, `658`, against the comment at 884-888);
  `AttemptIsHeld` leaves it out.
* `has_uncompleted_async_task` is one flag for all the protocols being created (`EngineClosesLast` says what it still
  guarantees). When one app has failed already and the creation of another protocol completes, the assertion at
  `engine/internal/remote_interface.c:516` fails.
* A first attempt that fails without a retry, or at once, destroys the remote that `remote/remote.c:429`
  then writes to.
* A peer that leaves before it answers leaves start_graph unanswered (`engine/internal/remote_interface.c:145`, `186-202`); `StartEnds` says so.
* A command that cannot be sent, or the answer that a connection is a duplicate, stops a timer
  whose closing has begun (`TimerOutlivesItsTasks` says so).
* The comment at `engine/internal/remote_interface.c:696-703` says which of two connections is kept; the code keeps the other one.

Migration:

* After a message for a graph that is not there, the next piece may be handled before the
  rest of the last one (`connection/migration.c:95`): `InOrder` and `ClosesLast` are about the time
  before such a reset. With a command in the rest, an end of the stream lets the task that closes the protocol run while the
  connection moves.
* A first message that the app itself handles, or drops, leaves the connection in state
  FIRST_MSG: what came with it stays aside, and the next piece is an assertion
  (`lost`, for scripts that begin with `"other"`).
* The end of the migration closes handles of the app's loop from the engine's thread
  (`ten_utils`, `uv/stream/migrate.c:133-140`), which libuv does not allow.

## 8. What is not modelled

See the components of `PROJECT.json` for each part. Planned: see section 2. Left out
for good: addon loading, metadata and schema, message properties and their conversion (sequential data without state
of their own), the global and start-up code, the bindings (their behaviour depends on the
runtimes of Go, Python and JavaScript), and everything outside `core/src`.

Each module leaves the failures of allocation and of the operating system out, except those
it names (an extension that cannot be created, an attempt to connect that fails, a connection that breaks). The
runtime persists nothing, so there are no restarts to recover from. The modules meet at
what one says of the other: `AppLife` takes from `GraphLifecycle` that an engine told to close closes;
`CmdRouting` takes from `Migration` that a client's messages arrive in order, and from `GraphLifecycle` the order of start and close;
`RemoteConnect` takes the enabling of the extensions from `GraphLifecycle`. These
joints are argued for here, not checked.
