----------------------------- MODULE CmdRouting -----------------------------
(***************************************************************************)
(* How messages travel in one graph: from an extension to one of its own   *)
(* thread by a call, to one of another thread through the engine's queue   *)
(* in_msgs and the task queue of that thread, from a client outside first  *)
(* through in_msgs and then through its remote; what is kept until the     *)
(* engine, the thread and the extension are ready; and what is answered    *)
(* with an error because its destination does not exist (any more).        *)
(*                                                                         *)
(* The start and the close of the graph are there as far as they change    *)
(* where messages go; GraphLifecycle has the rest of them.  All groups are *)
(* created in one step, every extension is created, and the engine is      *)
(* closed only after it became ready.  An extension is either too early to *)
(* get requests (state < ON_INIT_DONE), "live", or too late (state >=      *)
(* ON_DEINIT); it does not call on_xxx_done() while its thread is in the   *)
(* flush of another.                                                       *)
(***************************************************************************)
EXTENDS Naturals, Sequences, FiniteSets

CONSTANTS
    Extension,
    Group,          \* the extension groups, each with a thread of its own
    GroupOf,        \* [Extension -> Group]
    Client,         \* a client outside, with one connection
    Unknown,        \* destinations that are not in the graph
    Kinds,          \* the kinds of requests that are sent
    QueueSize,      \* EXTENSION_THREAD_QUEUE_SIZE
    Sendings,       \* bound: the numbers of requests that the senders may have sent
    None

Sender == Extension \union {Client}
Name == Extension \union Unknown

\* The n-th request of its sender; a command result has the number of its command.
Request == [kind : {"cmd", "data"}, src : Sender, dest : Name, n : Nat]
Result == [kind : {"result"}, src : Name, dest : Sender, n : Nat]
Msg == Request \union Result

ASSUME CmdRoutingAssumption ==
    /\ IsFiniteSet(Group)
    /\ GroupOf \in [Extension -> Group]
    /\ Client \notin Extension
    /\ Unknown \intersect Sender = {}
    /\ Kinds \subseteq {"cmd", "data"}
    /\ QueueSize \in Nat
    /\ Sendings \subseteq [Sender -> Nat]
    /\ None \notin Extension \union Msg

ResultOf(m) == [kind |-> "result", src |-> m.dest, dest |-> m.src, n |-> m.n]

\* What a command and its result have in common: the command id.
CmdId(m) == IF m.kind = "result" THEN <<m.dest, m.n>> ELSE <<m.src, m.n>>

VARIABLES
    extension_context,  \* whether the engine has one
    threads,        \* its list extension_threads
    is_ready,       \* engine->is_ready_to_handle_msg
    cnt_of_ready,   \* extension_threads_cnt_of_ready
    is_closing,     \* engine->is_closing
    e_queue,        \* the tasks of the engine's runloop: <<name, argument>>
    in_msgs,        \* engine->in_msgs
    taken,          \* the messages that the engine is about to handle
    put_back,       \* and those it could not handle yet
    is_remote,      \* whether the client's connection has got its remote
    t_state,        \* extension_thread->state
    t_queue,        \* the tasks of each thread's runloop
    init_stage,     \* thread->pending_msgs_received_in_init_stage, for each destination
    flushing,       \* the extension of the thread that flushes its pending messages
    inside,         \* the extensions whose callbacks were called by that flush
    life,           \* the state of each extension
    pending,        \* extension->pending_msgs_received_before_on_init_done
    in_paths,       \* the commands each extension has got and not answered
    out_paths,      \* the commands each extension has sent and not seen answered
    answered,       \* the commands that the client has seen answered
    sent,           \* how many requests each sender has sent
    delivered,      \* history: the requests given to each extension
    lost            \* history: commands that nobody will answer

engine == <<extension_context, threads, is_ready, cnt_of_ready, is_closing, is_remote>>
in_queue == <<in_msgs, e_queue>>
batch == <<taken, put_back>>
thread == <<t_state, init_stage, flushing>>
ext == <<life, pending, in_paths, delivered, inside>>
sender == <<out_paths, answered, sent>>

vars == <<engine, in_queue, batch, thread, t_queue, ext, sender, lost>>

Init ==
    /\ extension_context = FALSE
    /\ threads = {}
    /\ is_ready = FALSE
    /\ cnt_of_ready = 0
    /\ is_closing = FALSE
    /\ e_queue = <<>>
    /\ in_msgs = <<>>
    /\ taken = <<>>
    /\ put_back = <<>>
    /\ is_remote = FALSE
    /\ t_state = [g \in Group |-> "none"]
    /\ t_queue = [g \in Group |-> <<>>]
    /\ init_stage = [x \in Extension |-> <<>>]
    /\ flushing = [g \in Group |-> None]
    /\ inside = [g \in Group |-> {}]
    /\ life = [x \in Extension |-> "INIT"]
    /\ pending = [x \in Extension |-> <<>>]
    /\ in_paths = [x \in Extension |-> {}]
    /\ out_paths = [x \in Extension |-> {}]
    /\ answered = {}
    /\ sent = [s \in Sender |-> 0]
    /\ delivered = [x \in Extension |-> <<>>]
    /\ lost = {}

-----------------------------------------------------------------------------
(* The engine.                                                             *)

Task(name, arg) == <<name, arg>>
HandleInMsgs == Task("handle_in_msgs", None)

\* ten_engine_append_to_in_msgs_queue, for each of the messages.
AppendToInMsgs(msgs) ==
    /\ in_msgs' = in_msgs \o msgs
    /\ e_queue' = e_queue \o [i \in DOMAIN msgs |-> HandleInMsgs]

\* ten_engine_post_msg_to_extension_thread: data that finds the queue full is dropped.
PostMsg(g, m) ==
    t_queue' = [t_queue EXCEPT ![g] =
        IF Len(@) >= QueueSize /\ m.kind = "data" THEN @ ELSE Append(@, Task("msg", m))]

IsFound(dest) == dest \in Extension /\ GroupOf[dest] \in threads

\* To the client through its remote, to an extension by its thread; what cannot be
\* delivered is dropped.
Forward(m) ==
    \/ /\ m.dest = Client
       /\ answered' = answered \union {m.n}
       /\ UNCHANGED <<t_queue, lost>>
    \/ /\ IsFound(m.dest)
       /\ PostMsg(GroupOf[m.dest], m)
       /\ UNCHANGED <<answered, lost>>
    \/ /\ m.dest # Client /\ ~IsFound(m.dest)
       /\ lost' = IF m.kind = "cmd" THEN lost \union {CmdId(m)} ELSE lost
       /\ UNCHANGED <<t_queue, answered>>

\* ten_engine_dispatch_msg.  A command whose destination is not found is answered with an
\* error, except that one that comes before there is an extension context is not.
DispatchMsg(m) ==
    \/ /\ extension_context /\ m.kind = "cmd" /\ ~IsFound(m.dest)
       /\ Forward(ResultOf(m))
    \/ /\ ~(extension_context /\ m.kind = "cmd" /\ ~IsFound(m.dest))
       /\ Forward(m)

\* The engine's thread is not in the middle of ten_engine_handle_in_msgs_sync.
AtTask == taken = <<>> /\ put_back = <<>>

EngineTask(name, arg, posts) ==
    /\ AtTask
    /\ e_queue # <<>>
    /\ Head(e_queue) = Task(name, arg)
    /\ e_queue' = Tail(e_queue) \o posts

\* ten_engine_enable_extension_system, from which the threads start.
EnableExtensionSystem ==
    /\ AtTask
    /\ ~extension_context
    /\ extension_context' = TRUE
    /\ threads' = Group
    /\ t_state' = [g \in Group |-> "CREATING_EXTENSIONS"]
    /\ UNCHANGED <<is_ready, cnt_of_ready, is_closing, is_remote, in_queue, batch, init_stage,
                   flushing, t_queue, ext, sender, lost>>

\* Faulty variants: the engine is ready with its first thread, and the engine that becomes
\* ready does not look at its queue.
FindFirstExtensionInfo(g) ==
    /\ EngineTask("find_info", g, <<HandleInMsgs>>)
    /\ cnt_of_ready' = cnt_of_ready + 1
    /\ is_ready' = TRUE
    /\ t_queue' = [t_queue EXCEPT ![g] = Append(@, Task("start_life_cycle", None))]
    /\ UNCHANGED <<extension_context, threads, is_closing, is_remote, in_msgs, batch, thread,
                   ext, sender, lost>>

FindExtensionInfoOnly(g) ==
    /\ EngineTask("find_info", g, <<>>)
    /\ cnt_of_ready' = cnt_of_ready + 1
    /\ is_ready' = (cnt_of_ready + 1 = Cardinality(threads))
    /\ t_queue' = [t_queue EXCEPT ![g] = Append(@, Task("start_life_cycle", None))]
    /\ UNCHANGED <<extension_context, threads, is_closing, is_remote, in_msgs, batch, thread,
                   ext, sender, lost>>

\* The extensions of g are there; when those of all threads are, the engine becomes ready
\* and looks at its queue again.
FindExtensionInfo(g) ==
    LET all_ready == cnt_of_ready + 1 = Cardinality(threads)
    IN  /\ EngineTask("find_info", g, IF all_ready THEN <<HandleInMsgs>> ELSE <<>>)
        /\ cnt_of_ready' = cnt_of_ready + 1
        /\ is_ready' = all_ready
        /\ t_queue' = [t_queue EXCEPT ![g] = Append(@, Task("start_life_cycle", None))]
        /\ UNCHANGED <<extension_context, threads, is_closing, is_remote, in_msgs, batch, thread,
                       ext, sender, lost>>

TakeInMsgs ==
    /\ EngineTask("handle_in_msgs", None, <<>>)
    /\ taken' = in_msgs
    /\ in_msgs' = <<>>
    /\ UNCHANGED <<engine, put_back, thread, t_queue, ext, sender, lost>>

\* One round of the loop over the taken messages.  The first command of the client gives
\* its connection a remote.  An engine that is not ready takes every command result for
\* one of start_graph; the assertion that it is one is off in release builds, where the
\* result is dropped.
HandleTaken ==
    LET m == Head(taken)
    IN  /\ taken # <<>>
        /\ taken' = Tail(taken)
        /\ is_remote' = (is_remote \/ m.src = Client)
        /\ \/ /\ is_ready
              /\ DispatchMsg(m)
              /\ UNCHANGED put_back
           \/ /\ ~is_ready /\ m.kind = "result"
              /\ lost' = lost \union {CmdId(m)}
              /\ UNCHANGED <<put_back, t_queue, answered>>
           \/ /\ ~is_ready /\ m.kind # "result"
              /\ put_back' = Append(put_back, m)
              /\ UNCHANGED <<t_queue, answered, lost>>
        /\ UNCHANGED <<extension_context, threads, is_ready, cnt_of_ready, is_closing, in_queue,
                       thread, ext, out_paths, sent>>

\* Faulty variant: they are put back behind what came in the meantime.
PutBackBehind ==
    /\ taken = <<>> /\ put_back # <<>>
    /\ in_msgs' = in_msgs \o put_back
    /\ put_back' = <<>>
    /\ UNCHANGED <<engine, e_queue, taken, thread, t_queue, ext, sender, lost>>

\* ten_engine_prepend_to_in_msgs_queue.
PutBack ==
    /\ taken = <<>> /\ put_back # <<>>
    /\ in_msgs' = put_back \o in_msgs
    /\ put_back' = <<>>
    /\ UNCHANGED <<engine, e_queue, taken, thread, t_queue, ext, sender, lost>>

\* stop_graph, or a close by the app.
CloseEngine ==
    /\ AtTask
    /\ is_ready /\ ~is_closing
    /\ is_closing' = TRUE
    /\ t_queue' = [g \in Group |-> Append(t_queue[g], Task("trigger_close", None))]
    /\ UNCHANGED <<extension_context, threads, is_ready, cnt_of_ready, is_remote, in_queue, batch,
                   thread, ext, sender, lost>>

\* ten_engine_on_remove_extension_thread_from_engine.
RemoveThread(g) ==
    /\ EngineTask("remove", g, <<>>)
    /\ threads' = threads \ {g}
    /\ t_queue' = [t_queue EXCEPT ![g] = Append(@, Task("removed", None))]
    /\ UNCHANGED <<extension_context, is_ready, cnt_of_ready, is_closing, is_remote, in_msgs,
                   batch, thread, ext, sender, lost>>

-----------------------------------------------------------------------------
(* A request reaches its extension (ten_extension_handle_in_msg), or finds *)
(* that the thread has no such extension (any more).                       *)

IsPending(m) == life[m.dest] \in {"INIT", "early"}
IsRefused(m) == life[m.dest] \in {"deinit", "held", "deinit_done", "deleted"}

\* Faulty variant: a command that cannot be handled is dropped like data.
RefuseSilently(m) == AppendToInMsgs(<<>>)

\* ten_extension_thread_create_cmd_result_and_dispatch, for a command.
Refuse(m) == AppendToInMsgs(IF m.kind = "cmd" THEN <<ResultOf(m)>> ELSE <<>>)

HandleRequest(m) ==
    \/ /\ IsPending(m)
       /\ pending' = [pending EXCEPT ![m.dest] = Append(@, m)]
       /\ UNCHANGED <<in_paths, delivered, inside, in_queue>>
    \/ /\ IsRefused(m)
       /\ Refuse(m)
       /\ UNCHANGED <<pending, in_paths, delivered, inside>>
    \/ /\ ~IsPending(m) /\ ~IsRefused(m)
       /\ delivered' = [delivered EXCEPT ![m.dest] = Append(@, m)]
       /\ in_paths' = IF m.kind = "cmd" THEN [in_paths EXCEPT ![m.dest] = @ \union {CmdId(m)}]
                                        ELSE in_paths
       /\ inside' = LET g == GroupOf[m.dest]
                    IN  IF flushing[g] = None THEN inside
                        ELSE [inside EXCEPT ![g] = @ \union {m.dest}]
       /\ UNCHANGED <<pending, in_queue>>

\* A result finds the OUT path of its command, in every state of the extension.
HandleResult(m) ==
    out_paths' = IF life[m.dest] = "deleted" THEN out_paths
                 ELSE [out_paths EXCEPT ![m.dest] = @ \ {m.n}]

-----------------------------------------------------------------------------
(* Those who send.                                                         *)

\* The user's code in x runs, in a callback or later, and not while the thread is in the
\* flush of another extension that has not called it.
MayCall(x) ==
    /\ life[x] \in {"early", "live", "deinit"}
    /\ flushing[GroupOf[x]] = None \/ x \in inside[GroupOf[x]]

NewRequest(s, kind, dest) == [kind |-> kind, src |-> s, dest |-> dest, n |-> sent[s] + 1]

CountSent(m) ==
    /\ sent' = [sent EXCEPT ![m.src] = @ + 1]
    /\ sent' \in Sendings

WithOutPath(m) ==
    IF m.kind = "cmd" THEN [out_paths EXCEPT ![m.src] = @ \union {m.n}] ELSE out_paths

\* ten_extension_dispatch_msg and ten_extension_thread_dispatch_msg: a call within the
\* thread, else through the engine; a name the graph does not know is refused at once.
SendRequest(x, kind, dest) ==
    LET m == NewRequest(x, kind, dest)
    IN  /\ MayCall(x)
        /\ CountSent(m)
        /\ out_paths' = WithOutPath(m)
        /\ \/ /\ dest \in Extension /\ GroupOf[dest] = GroupOf[x]
              /\ HandleRequest(m)
           \/ /\ dest \in Extension /\ GroupOf[dest] # GroupOf[x]
              /\ AppendToInMsgs(<<m>>)
              /\ UNCHANGED <<pending, in_paths, delivered, inside>>
           \/ /\ dest \in Unknown
              /\ Refuse(m)
              /\ UNCHANGED <<pending, in_paths, delivered, inside>>
        /\ UNCHANGED <<engine, batch, thread, t_queue, life, answered, lost>>

\* ten_env_return_result.
ReturnResult(x, cmd) ==
    LET s == cmd[1]
        m == [kind |-> "result", src |-> x, dest |-> s, n |-> cmd[2]]
    IN  /\ MayCall(x)
        /\ cmd \in in_paths[x]
        /\ in_paths' = [in_paths EXCEPT ![x] = @ \ {cmd}]
        /\ \/ /\ s \in Extension /\ GroupOf[s] = GroupOf[x]
              /\ HandleResult(m)
              /\ UNCHANGED in_queue
           \/ /\ ~(s \in Extension /\ GroupOf[s] = GroupOf[x])
              /\ AppendToInMsgs(<<m>>)
              /\ UNCHANGED out_paths
        /\ UNCHANGED <<engine, batch, thread, t_queue, life, pending, delivered, inside, answered,
                       sent, lost>>

\* The client's first command comes with its connection, which then belongs to the engine.
FirstFromClient(dest) ==
    LET m == NewRequest(Client, "cmd", dest)
    IN  /\ sent[Client] = 0
        /\ ~is_closing
        /\ CountSent(m)
        /\ AppendToInMsgs(<<m>>)
        /\ UNCHANGED <<engine, batch, thread, t_queue, ext, out_paths, answered, lost>>

\* ten_engine_receive_msg_from_remote: what comes later is dispatched at once.
FromRemote(kind, dest) ==
    LET m == NewRequest(Client, kind, dest)
    IN  /\ AtTask
        /\ is_remote
        /\ ~is_closing
        /\ CountSent(m)
        /\ DispatchMsg(m)
        /\ UNCHANGED <<engine, in_queue, batch, thread, ext, out_paths>>

-----------------------------------------------------------------------------
(* The extension threads, and the life of their extensions.                *)

ExtensionsOf(g) == {x \in Extension : GroupOf[x] = g}

ThreadTask(g, name, arg) ==
    /\ t_state[g] # "CLOSED"
    /\ flushing[g] = None
    /\ t_queue[g] # <<>>
    /\ Head(t_queue[g]) = Task(name, arg)
    /\ t_queue' = [t_queue EXCEPT ![g] = Tail(@)]

\* ten_extension_thread_add_all_created_extensions.
AddAllCreatedExtensions(g) ==
    /\ t_state[g] = "CREATING_EXTENSIONS"
    /\ t_state' = [t_state EXCEPT ![g] = "created"]
    /\ e_queue' = Append(e_queue, Task("find_info", g))
    /\ UNCHANGED <<engine, in_msgs, batch, init_stage, flushing, t_queue, ext, sender, lost>>

\* The extensions begin with on_configure().
StartLifeCycle(g) ==
    /\ ThreadTask(g, "start_life_cycle", None)
    /\ t_state' = [t_state EXCEPT ![g] = "NORMAL"]
    /\ life' = [x \in Extension |-> IF x \in ExtensionsOf(g) THEN "early" ELSE life[x]]
    /\ UNCHANGED <<engine, in_queue, batch, init_stage, flushing, pending, in_paths, delivered,
                   inside, sender, lost>>

TriggerClose(g) ==
    /\ ThreadTask(g, "trigger_close", None)
    /\ t_state' = [t_state EXCEPT ![g] = "PREPARE_TO_CLOSE"]
    /\ UNCHANGED <<engine, in_queue, batch, init_stage, flushing, ext, sender, lost>>

\* ten_extension_thread_handle_in_msg_task.  Until its life cycles start the thread keeps
\* what it gets.
HandleInMsg(g) ==
    LET m == Head(t_queue[g])[2]
        is_msg == t_queue[g] # <<>> /\ Head(t_queue[g])[1] = "msg"
    IN  /\ is_msg
        /\ ThreadTask(g, "msg", m)
        /\ \/ /\ t_state[g] \in {"CREATING_EXTENSIONS", "created"}
              /\ init_stage' = [init_stage EXCEPT ![m.dest] = Append(@, m)]
              /\ UNCHANGED <<in_queue, pending, in_paths, delivered, inside, out_paths>>
           \/ /\ t_state[g] \notin {"CREATING_EXTENSIONS", "created"}
              /\ m.kind = "result"
              /\ HandleResult(m)
              /\ UNCHANGED <<init_stage, in_queue, pending, in_paths, delivered, inside>>
           \/ /\ t_state[g] \notin {"CREATING_EXTENSIONS", "created"}
              /\ m.kind # "result"
              /\ HandleRequest(m)
              /\ UNCHANGED <<init_stage, out_paths>>
        /\ UNCHANGED <<engine, batch, t_state, flushing, life, answered, sent, lost>>

\* What a flush by x has to go through: what the thread has kept for it, then what it has
\* kept itself.
Kept(x) == init_stage[x] \o pending[x]

\* on_init_done(), or on_configure_done() or on_init_done() of an extension that is to
\* stop at once.  Only the former flushes what was kept.
OnInitDone(x) ==
    LET g == GroupOf[x]
    IN  /\ life[x] = "early"
        /\ flushing[g] = None
        /\ life' = [life EXCEPT ![x] = "live"]
        /\ flushing' = IF t_state[g] = "NORMAL" /\ Kept(x) # <<>>
                       THEN [flushing EXCEPT ![g] = x] ELSE flushing
        /\ UNCHANGED <<engine, in_queue, batch, t_state, init_stage, t_queue, pending, in_paths,
                       delivered, inside, sender, lost>>

\* The next message of the flush that x does.  It is delivered, or refused when x is at its
\* end; in that case x is deleted by a task of its own after the last one.
Flush(x) ==
    LET g == GroupOf[x]
        m == Head(Kept(x))
        is_last == Len(Kept(x)) = 1
    IN  /\ flushing[g] = x
        /\ IF init_stage[x] # <<>>
           THEN init_stage' = [init_stage EXCEPT ![x] = Tail(@)] /\ UNCHANGED pending
           ELSE pending' = [pending EXCEPT ![x] = Tail(@)] /\ UNCHANGED init_stage
        /\ flushing' = IF is_last THEN [flushing EXCEPT ![g] = None] ELSE flushing
        /\ \/ /\ life[x] = "live"
              /\ delivered' = [delivered EXCEPT ![x] = Append(@, m)]
              /\ in_paths' = IF m.kind = "cmd"
                             THEN [in_paths EXCEPT ![x] = @ \union {CmdId(m)}] ELSE in_paths
              /\ inside' = [inside EXCEPT ![g] = IF is_last THEN {} ELSE @ \union {x}]
              /\ UNCHANGED <<in_queue, t_queue>>
           \/ /\ life[x] = "deinit_done"
              /\ Refuse(m)
              /\ t_queue' = IF is_last
                            THEN [t_queue EXCEPT ![g] = Append(@, Task("del_extension", x))]
                            ELSE t_queue
              /\ UNCHANGED <<delivered, in_paths, inside>>
        /\ UNCHANGED <<engine, batch, t_state, life, sender, lost>>

\* on_stop() and on_stop_done(), and the path timers are closed.
OnDeinit(x) ==
    /\ life[x] = "live"
    /\ t_state[GroupOf[x]] = "PREPARE_TO_CLOSE"
    /\ flushing[GroupOf[x]] = None
    /\ life' = [life EXCEPT ![x] = "deinit"]
    /\ UNCHANGED <<engine, in_queue, batch, thread, t_queue, pending, in_paths, delivered, inside,
                   sender, lost>>

\* ten_extension_thread_on_extension_on_deinit_done: what was kept is flushed, before x is
\* deleted.
Leave(x) ==
    LET g == GroupOf[x]
    IN  /\ life' = [life EXCEPT ![x] = "deinit_done"]
        /\ IF Kept(x) # <<>>
           THEN flushing' = [flushing EXCEPT ![g] = x] /\ UNCHANGED t_queue
           ELSE /\ t_queue' = [t_queue EXCEPT ![g] = Append(@, Task("del_extension", x))]
                /\ UNCHANGED flushing

\* on_deinit_done(): the IN paths are forgotten, so nobody answers those commands; the OUT
\* paths are answered with errors.  With a ten_env_proxy left the rest has to wait.
OnDeinitDone(x) ==
    /\ life[x] = "deinit"
    /\ flushing[GroupOf[x]] = None
    /\ lost' = lost \union in_paths[x]
    /\ in_paths' = [in_paths EXCEPT ![x] = {}]
    /\ out_paths' = [out_paths EXCEPT ![x] = {}]
    /\ \/ Leave(x)
       \/ /\ life' = [life EXCEPT ![x] = "held"]
          /\ UNCHANGED <<flushing, t_queue>>
    /\ UNCHANGED <<engine, in_queue, batch, t_state, init_stage, pending, delivered, inside,
                   answered, sent>>

\* ten_extension_on_ten_env_proxy_released, for the last proxy.
ProxyReleased(x) ==
    /\ life[x] = "held"
    /\ flushing[GroupOf[x]] = None
    /\ Leave(x)
    /\ UNCHANGED <<engine, in_queue, batch, t_state, init_stage, pending, in_paths, delivered,
                   inside, sender, lost>>

\* ten_extension_thread_del_extension: nothing is routed to x from here on.
DelExtension(x) ==
    /\ ThreadTask(GroupOf[x], "del_extension", x)
    /\ life' = [life EXCEPT ![x] = "deleted"]
    /\ UNCHANGED <<engine, in_queue, batch, thread, pending, in_paths, delivered, inside, sender,
                   lost>>

\* The extensions are destroyed and the group is deinitialised.
OnGroupDeinitDone(g) ==
    /\ t_state[g] = "PREPARE_TO_CLOSE"
    /\ \A x \in ExtensionsOf(g) : life[x] = "deleted"
    /\ t_state' = [t_state EXCEPT ![g] = "destroyed"]
    /\ e_queue' = Append(e_queue, Task("remove", g))
    /\ UNCHANGED <<engine, in_msgs, batch, init_stage, flushing, t_queue, ext, sender, lost>>

\* The thread destroys its group and stops its runloop.
RemovedFromEngine(g) ==
    /\ ThreadTask(g, "removed", None)
    /\ t_state' = [t_state EXCEPT ![g] = "CLOSED"]
    /\ UNCHANGED <<engine, in_queue, batch, init_stage, flushing, ext, sender, lost>>

-----------------------------------------------------------------------------

EngineStep ==
    \/ EnableExtensionSystem
    \/ \E g \in Group : FindExtensionInfo(g) \/ RemoveThread(g)
    \/ TakeInMsgs
    \/ HandleTaken
    \/ PutBack

ThreadStep(g) ==
    \/ AddAllCreatedExtensions(g)
    \/ StartLifeCycle(g)
    \/ TriggerClose(g)
    \/ HandleInMsg(g)
    \/ OnGroupDeinitDone(g)
    \/ RemovedFromEngine(g)
    \/ \E x \in ExtensionsOf(g) : Flush(x) \/ DelExtension(x)

LifeStep(x) ==
    \/ OnInitDone(x)
    \/ OnDeinit(x)
    \/ OnDeinitDone(x)
    \/ ProxyReleased(x)

ClientStep ==
    \E dest \in Name :
        \/ FirstFromClient(dest)
        \/ \E kind \in Kinds : FromRemote(kind, dest)

Next ==
    \/ EngineStep
    \/ CloseEngine
    \/ ClientStep
    \/ \E g \in Group : ThreadStep(g)
    \/ \E x \in Extension :
          \/ LifeStep(x)
          \/ \E kind \in Kinds, dest \in Name : SendRequest(x, kind, dest)
          \/ \E cmd \in in_paths[x] : ReturnResult(x, cmd)

Spec == Init /\ [][Next]_vars

\* Runloops run their tasks and extensions call on_xxx_done(); nobody has to send, to
\* answer or to close.
Fairness ==
    /\ WF_vars(EngineStep)
    /\ \A g \in Group : WF_vars(ThreadStep(g))
    /\ \A x \in Extension : WF_vars(OnInitDone(x)) /\ WF_vars(OnDeinit(x))
                            /\ WF_vars(OnDeinitDone(x)) /\ WF_vars(ProxyReleased(x))

FairSpec == Spec /\ Fairness
-----------------------------------------------------------------------------
(* Properties.                                                             *)

IsEngineTask(t) ==
    t = HandleInMsgs \/ (t[1] \in {"find_info", "remove"} /\ t[2] \in Group)

IsTaskOf(g, t) ==
    \/ t[1] \in {"start_life_cycle", "trigger_close", "removed"}
    \/ (t[1] = "del_extension" /\ t[2] \in Extension /\ GroupOf[t[2]] = g)
    \/ (t[1] = "msg" /\ t[2] \in Msg /\ GroupOf[t[2].dest] = g)

\* Everything has its type, and a message is kept, or given to an extension, only where its
\* destination is: what is in the queue of a thread is for an extension of that thread, and
\* each of the engine's threads counts once on the way to being ready.
TypeOK ==
    /\ threads \subseteq Group /\ cnt_of_ready \in 0..Cardinality(Group)
    /\ is_ready = (extension_context /\ 0 < cnt_of_ready /\ cnt_of_ready = Cardinality(Group))
    /\ \A i \in DOMAIN e_queue : IsEngineTask(e_queue[i])
    /\ \A msgs \in {in_msgs, taken, put_back} : \A i \in DOMAIN msgs :
           msgs[i] \in Msg
    /\ \A g \in Group : \A i \in DOMAIN t_queue[g] : IsTaskOf(g, t_queue[g][i])
    /\ \A x \in Extension : \A msgs \in {init_stage[x], pending[x]} :
           \A i \in DOMAIN msgs : msgs[i] \in Request /\ msgs[i].dest = x
    /\ in_paths \in [Extension -> SUBSET (Sender \X Nat)]
    /\ out_paths \in [Extension -> SUBSET Nat]

InOrder(x, senders) ==
    \A i, j \in DOMAIN delivered[x] :
        i < j /\ delivered[x][i].src = delivered[x][j].src /\ delivered[x][i].src \in senders
            => delivered[x][i].n < delivered[x][j].n

\* What an extension sends to one of another thread arrives in the order in which it was
\* sent and not twice, whether it was put back, kept by the thread, kept by the extension
\* or none of these.
DeliveredInOrder ==
    \A x \in Extension : InOrder(x, {s \in Extension : GroupOf[s] # GroupOf[x]})

MsgsIn(g) == [i \in DOMAIN t_queue[g] |-> IF t_queue[g][i][1] = "msg" THEN t_queue[g][i][2] ELSE None]

\* The places where the command id may be: in a message on its way, or in an IN path.
Holds(place, msgs, id) ==
    {<<place, i>> : i \in {j \in DOMAIN msgs : msgs[j] # None /\ msgs[j].kind # "data"
                                                /\ CmdId(msgs[j]) = id}}

OnTheWay(id) ==
    Holds("in_msgs", in_msgs, id) \union Holds("taken", taken, id)
    \union Holds("put_back", put_back, id)
    \union (UNION {Holds(<<"queue", g>>, MsgsIn(g), id) : g \in Group})
    \union (UNION {Holds(<<"init_stage", x>>, init_stage[x], id) : x \in Extension})
    \union (UNION {Holds(<<"pending", x>>, pending[x], id) : x \in Extension})

HeldBy(id) == {x \in Extension : id \in in_paths[x]}

\* As long as its sender waits for it, a command is in one place exactly, itself or as its
\* result, or it is one that its destination forgot when it was deinitialised: nothing is
\* dropped without an answer, and nothing is answered twice.
CmdIsSomewhere ==
    \A x \in Extension : \A n \in out_paths[x] :
        Cardinality(OnTheWay(<<x, n>>)) + Cardinality(HeldBy(<<x, n>>))
            = (IF <<x, n>> \in lost THEN 0 ELSE 1)

\* The assertion in ten_extension_thread_destroy that nothing is left of what was kept,
\* and the runloop that stops has no message left.
ThreadEndsEmpty ==
    \A g \in Group : t_state[g] = "CLOSED" =>
        /\ \A x \in ExtensionsOf(g) : init_stage[x] = <<>>
        /\ \A i \in DOMAIN t_queue[g] : t_queue[g][i][1] # "msg"

\* Nothing is dropped without an answer, and what a thread leaves behind is nothing.
NothingIsDropped == CmdIsSomewhere /\ ThreadEndsEmpty

\* A command does not stay on its way for ever: it reaches an extension, is refused, or
\* its sender goes away.
CmdArrives ==
    \A x \in Extension : \A n \in {v[x] : v \in Sendings} :
        n \in out_paths[x] ~> (n \notin out_paths[x] \/ OnTheWay(<<x, n>>) = {})
=============================================================================
