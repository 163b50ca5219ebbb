------------------------ MODULE GraphLifecycleProofs ------------------------
(***************************************************************************)
(* Proofs about GraphLifecycle: its type invariant, its four safety        *)
(* invariants and the refinement of ExtensionLife, for any number of       *)
(* groups, extensions and close requests.                                  *)
(*                                                                         *)
(* None of them is inductive: what a task finds when it is taken depends   *)
(* on everything its group has done before.  LifecycleInv says that every  *)
(* group is in one of twenty places, from "nothing asked for" to "joined", *)
(* such that each task in a runloop and each request to the app's thread   *)
(* belongs to the place of its group, and the variables of its thread and  *)
(* its extensions are those of the place.  The places are chosen by an     *)
(* existential quantifier: no variable of the program holds them.  Every   *)
(* step then takes one group from one place to another, or all of them     *)
(* when the threads start or the engine tells them to close, and leaves    *)
(* the places of the others: what a step cannot disturb is stated once,    *)
(* as Spares, and each action has a lemma that ends in Advances.           *)
(***************************************************************************)
EXTENDS GraphLifecycle, FiniteSetTheorems, TaskQueues

-----------------------------------------------------------------------------
(* The values of the variables.                                            *)

LEMMA EngineKinds ==
    /\ <<"start_graph", 0>> \in EngineTasks /\ <<"close", 0>> \in EngineTasks
    /\ \A g \in Group :
          /\ <<"group_created", g>> \in EngineTasks /\ <<"find_info", g>> \in EngineTasks
          /\ <<"remove_thread", g>> \in EngineTasks /\ <<"thread_closed", g>> \in EngineTasks
BY DEF EngineTasks

LEMMA ThreadKinds ==
    ASSUME NEW g
    PROVE  /\ \A n \in {"start", "group_init_done", "trigger_close", "start_life_cycle",
                        "stop_life_cycle", "all_extensions_deleted", "group_deinit_done",
                        "removed_from_engine", "group_destroyed"} : <<n, g>> \in ThreadTasks(g)
           /\ \A x \in ExtOf(g) :
                 \A n \in {"ext_created", "ext_failed", "on_init", "on_start", "timers_closed",
                           "proxy_deleted", "del_extension", "ext_destroyed"} :
                     <<n, x>> \in ThreadTasks(g)
BY DEF ThreadTasks

LEMMA ExtGroup ==
    /\ \A x \in Extension : x[1] \in Group /\ x \in ExtOf(x[1])
    /\ \A g \in Group : \A x \in ExtOf(g) : x \in Extension /\ x[1] = g
BY DEF Extension, ExtOf

ExtStates == {"none", "failed"} \union StartFlow \union CloseFlow

EngineTyped ==
    /\ engine \in {"running", "closed"}
    /\ extension_context \in {"none", "open", "closed"}
    /\ is_closing \in BOOLEAN
    /\ threads \subseteq Group
    /\ cnt \in [{"ready", "closed", "total"} -> Nat]
    /\ cnt.total <= Cardinality(Group)
    /\ start_graph \in {"none", "pending", "ok", "error"}
    /\ close_requests \in 0..MaxClose

GroupsTyped ==
    /\ runloop \in [Group -> {"none", "running", "stopped", "exited"}]
    /\ t_state \in [Group -> {"INIT", "CREATING_EXTENSIONS", "NORMAL", "PREPARE_TO_CLOSE",
                             "CLOSED"}]
    /\ is_close_triggered \subseteq Group
    /\ err_before_ready \subseteq Group

ExtsTyped ==
    /\ ext_state \in [Extension -> ExtStates]
    /\ path_timers \subseteq Extension
    /\ proxy \in [Extension -> {"never", "held", "released", "gone"}]

QueuesTyped ==
    /\ e_queue \in Seq(EngineTasks)
    /\ t_queue = [g \in Group |-> t_queue[g]]
    /\ \A g \in Group : t_queue[g] \in Seq(ThreadTasks(g))

Typed == EngineTyped /\ GroupsTyped /\ ExtsTyped /\ QueuesTyped /\ addon \subseteq Requests

LEMMA Counted ==
    /\ IsFiniteSet(Group) /\ Cardinality(Group) \in Nat
    /\ \A s : s \subseteq Group => /\ IsFiniteSet(s) /\ Cardinality(s) \in Nat
                                   /\ Cardinality(s) <= Cardinality(Group)
                                   /\ Cardinality(s) = Cardinality(Group) => s = Group
BY GraphLifecycleAssumption, FS_Subset, FS_CardinalityType

LEMMA EngineTypedNext ==
    ASSUME EngineTyped, [Next]_vars
    PROVE  EngineTyped'
<1> USE DEF EngineTyped, engine_side, context, life
<1>1. CASE CloseEngine
  BY <1>1, GraphLifecycleAssumption DEF CloseEngine
<1>2. CASE StartGraph
  BY <1>2 DEF StartGraph
<1>3. CASE CloseTask
  <2>1. CASE CloseAgain
    BY <1>3, <2>1 DEF CloseTask, CloseAgain
  <2>2. CASE CloseAtOnce
    BY <1>3, <2>2 DEF CloseTask, CloseAtOnce
  <2>3. CASE CloseThreads
    BY <1>3, <2>3, Counted DEF CloseTask, CloseThreads
  <2> QED BY <1>3, <2>1, <2>2, <2>3 DEF CloseTask
<1>4. ASSUME NEW g \in Group, GroupCreated(g) PROVE EngineTyped'
  BY <1>4 DEF GroupCreated
<1>5. ASSUME NEW g \in Group, FindInfo(g) PROVE EngineTyped'
  <2>1. CASE StopInstead(g)
    BY <1>5, <2>1 DEF FindInfo, StopInstead
  <2>2. CASE StartExtensions(g)
    BY <1>5, <2>2 DEF FindInfo, StartExtensions
  <2> QED BY <1>5, <2>1, <2>2 DEF FindInfo
<1>6. ASSUME NEW g \in Group, RemoveThread(g) PROVE EngineTyped'
  BY <1>6 DEF RemoveThread
<1>7. ASSUME NEW g \in Group, ThreadClosed(g) PROVE EngineTyped'
  BY <1>7 DEF ThreadClosed
<1>8. ASSUME NEW g \in Group, AddonDone(g) \/ ThreadNext(g) \/ ThreadExit(g)
      PROVE  UNCHANGED <<engine, extension_context, is_closing, threads, cnt, start_graph,
                         close_requests>>
  <2>1. CASE AddonDone(g)
    BY <2>1 DEF AddonDone
  <2>2. CASE ThreadNext(g)
    BY <2>2 DEF ThreadNext, Start, GroupInitDone, TriggerClose, StopLifeCycleTask, StartLifeCycle,
       AllExtensionsDeleted, GroupDeinitDone, RemovedFromEngine, GroupDestroyed, ExtensionCreated,
       OnInit, OnStart, Callback, TimersClosed, ProxyDeleted, DelExtension, ExtensionDestroyed
  <2>3. CASE ThreadExit(g)
    BY <2>3 DEF ThreadExit
  <2> QED BY <1>8, <2>1, <2>2, <2>3
<1>9. ASSUME NEW x \in Extension, UserNext(x) \/ CreateProxy(x) \/ ReleaseProxy(x)
      PROVE  UNCHANGED <<engine, extension_context, is_closing, threads, cnt, start_graph,
                         close_requests>>
  BY <1>9 DEF UserNext, OnConfigureDone, OnInitDone, OnStartDone, OnStopDone, OnDeinitDone, Proceed,
     Calls, CreateProxy, ReleaseProxy
<1>10. CASE UNCHANGED vars
  BY <1>10 DEF vars
<1> QED
  BY <1>1, <1>2, <1>3, <1>4, <1>5, <1>6, <1>7, <1>8, <1>9, <1>10 DEF Next, EngineNext, Finished

LEMMA GroupsTypedNext ==
    ASSUME GroupsTyped, [Next]_vars
    PROVE  GroupsTyped'
<1> USE DEF GroupsTyped, engine_side, context, life
<1>1. CASE CloseEngine \/ StartGraph \/ CloseTask
  <2>1. UNCHANGED <<runloop, t_state, is_close_triggered, err_before_ready>>
    BY <1>1 DEF CloseEngine, StartGraph, CloseTask
  <2> QED BY <2>1
<1>2. ASSUME NEW g \in Group, GroupCreated(g) PROVE GroupsTyped'
  BY <1>2 DEF GroupCreated
<1>3. ASSUME NEW g \in Group, FindInfo(g) \/ RemoveThread(g) \/ ThreadClosed(g) \/ AddonDone(g)
      PROVE  GroupsTyped'
  <2>1. UNCHANGED <<runloop, t_state, is_close_triggered, err_before_ready>>
    BY <1>3 DEF FindInfo, RemoveThread, ThreadClosed, AddonDone
  <2> QED BY <2>1
<1>4. ASSUME NEW g \in Group, GroupInitDone(g) PROVE GroupsTyped'
  BY <1>4 DEF GroupInitDone
<1>5. ASSUME NEW g \in Group, TriggerClose(g) PROVE GroupsTyped'
  BY <1>5 DEF TriggerClose, StopLifeCycle
<1>6. ASSUME NEW g \in Group, StopLifeCycleTask(g) PROVE GroupsTyped'
  BY <1>6 DEF StopLifeCycleTask, StopLifeCycle
<1>7. ASSUME NEW g \in Group, StartLifeCycle(g) PROVE GroupsTyped'
  BY <1>7 DEF StartLifeCycle
<1>8. ASSUME NEW g \in Group, GroupDestroyed(g) PROVE GroupsTyped'
  BY <1>8 DEF GroupDestroyed
<1>9. ASSUME NEW g \in Group, ThreadExit(g) PROVE GroupsTyped'
  BY <1>9 DEF ThreadExit
<1>10. ASSUME NEW g \in Group, NEW x \in ExtOf(g), ExtensionCreated(g, x) PROVE GroupsTyped'
  BY <1>10 DEF ExtensionCreated, AllCreated
<1>11. ASSUME NEW g \in Group,
              \/ Start(g) \/ AllExtensionsDeleted(g) \/ GroupDeinitDone(g) \/ RemovedFromEngine(g)
              \/ \E x \in ExtOf(g) :
                    \/ OnInit(g, x) \/ OnStart(g, x) \/ TimersClosed(g, x)
                    \/ ProxyDeleted(g, x) \/ DelExtension(g, x) \/ ExtensionDestroyed(g, x)
       PROVE  GroupsTyped'
  <2>1. UNCHANGED <<runloop, t_state, is_close_triggered, err_before_ready>>
    BY <1>11 DEF Start, AllExtensionsDeleted, GroupDeinitDone, RemovedFromEngine, OnInit, OnStart,
       Callback, TimersClosed, ProxyDeleted, DelExtension, ExtensionDestroyed
  <2> QED BY <2>1
<1>12. ASSUME NEW x \in Extension, UserNext(x) \/ CreateProxy(x) \/ ReleaseProxy(x)
       PROVE  GroupsTyped'
  <2>1. UNCHANGED <<runloop, t_state, is_close_triggered, err_before_ready>>
    BY <1>12 DEF UserNext, OnConfigureDone, OnInitDone, OnStartDone, OnStopDone, OnDeinitDone,
       Proceed, Calls, CreateProxy, ReleaseProxy
  <2> QED BY <2>1
<1>13. CASE UNCHANGED vars
  BY <1>13 DEF vars
<1> QED
  BY <1>1, <1>2, <1>3, <1>4, <1>5, <1>6, <1>7, <1>8, <1>9, <1>10, <1>11, <1>12, <1>13
     DEF Next, EngineNext, ThreadNext, Finished

LEMMA ExtsTypedNext ==
    ASSUME ExtsTyped, [Next]_vars
    PROVE  ExtsTyped'
<1> USE DEF ExtsTyped, life, Enter
<1>1. CASE CloseEngine \/ StartGraph \/ CloseTask
  <2>1. UNCHANGED life
    BY <1>1 DEF CloseEngine, StartGraph, CloseTask
  <2> QED BY <2>1
<1>2. ASSUME NEW g \in Group, \/ GroupCreated(g) \/ FindInfo(g) \/ RemoveThread(g) \/ ThreadClosed(g)
                              \/ AddonDone(g) \/ ThreadExit(g)
      PROVE  ExtsTyped'
  <2>1. UNCHANGED life
    BY <1>2 DEF GroupCreated, FindInfo, RemoveThread, ThreadClosed, AddonDone, ThreadExit
  <2> QED BY <2>1
<1>3. ASSUME NEW g \in Group,
             \/ Start(g) \/ GroupInitDone(g) \/ AllExtensionsDeleted(g) \/ GroupDeinitDone(g)
             \/ RemovedFromEngine(g) \/ GroupDestroyed(g)
      PROVE  ExtsTyped'
  <2>1. UNCHANGED life
    BY <1>3 DEF Start, GroupInitDone, AllExtensionsDeleted, GroupDeinitDone, RemovedFromEngine,
       GroupDestroyed
  <2> QED BY <2>1
<1>4. \A g, t : StopLifeCycle(g, t) => ext_state' \in [Extension -> ExtStates]
  BY DEF StopLifeCycle, ExtStates, CloseFlow
<1>5. ASSUME NEW g \in Group, TriggerClose(g) PROVE ExtsTyped'
  <2>1. ext_state' = ext_state \/ StopLifeCycle(g, "trigger_close")
    BY <1>5 DEF TriggerClose
  <2> QED BY <1>4, <1>5, <2>1 DEF TriggerClose
<1>6. ASSUME NEW g \in Group, StopLifeCycleTask(g) PROVE ExtsTyped'
  BY <1>4, <1>6 DEF StopLifeCycleTask
<1>7. ASSUME NEW g \in Group, StartLifeCycle(g) PROVE ExtsTyped'
  BY <1>7 DEF StartLifeCycle, ExtStates, StartFlow
<1>8. ASSUME NEW g \in Group, NEW x \in ExtOf(g), ExtensionCreated(g, x) PROVE ExtsTyped'
  BY <1>8 DEF ExtensionCreated, Created, ExtStates, StartFlow
<1>9. ASSUME NEW g \in Group, NEW x \in ExtOf(g), OnInit(g, x) \/ OnStart(g, x) PROVE ExtsTyped'
  BY <1>9 DEF OnInit, OnStart, Callback, ExtStates, StartFlow
<1>10. ASSUME NEW g \in Group, NEW x \in ExtOf(g), TimersClosed(g, x) PROVE ExtsTyped'
  BY <1>10 DEF TimersClosed, ExtStates, CloseFlow
<1>11. ASSUME NEW g \in Group, NEW x \in ExtOf(g), ProxyDeleted(g, x) PROVE ExtsTyped'
  BY <1>11 DEF ProxyDeleted
<1>12. ASSUME NEW g \in Group, NEW x \in ExtOf(g), DelExtension(g, x) PROVE ExtsTyped'
  BY <1>12 DEF DelExtension, ExtStates, CloseFlow
<1>13. ASSUME NEW g \in Group, NEW x \in ExtOf(g), ExtensionDestroyed(g, x) PROVE ExtsTyped'
  BY <1>13 DEF ExtensionDestroyed, ExtStates, CloseFlow
<1>14. ASSUME NEW x \in Extension, UserNext(x) PROVE ExtsTyped'
  <2>1. proxy' = proxy
    BY <1>14 DEF UserNext, OnConfigureDone, OnInitDone, OnStartDone, OnStopDone, OnDeinitDone,
       Proceed, Calls
  <2>2. path_timers' = path_timers \/ path_timers' = path_timers \union {x}
    BY <1>14 DEF UserNext, OnConfigureDone, OnInitDone, OnStartDone, OnStopDone, OnDeinitDone
  <2>3. \E s \in ExtStates : ext_state' = Enter(x, s)
    BY <1>14 DEF UserNext, OnConfigureDone, OnInitDone, OnStartDone, OnStopDone, OnDeinitDone,
       Proceed, ExtStates, StartFlow, CloseFlow
  <2> QED BY <2>1, <2>2, <2>3
<1>15. ASSUME NEW x \in Extension, CreateProxy(x) \/ ReleaseProxy(x) PROVE ExtsTyped'
  BY <1>15 DEF CreateProxy, ReleaseProxy
<1>16. CASE UNCHANGED vars
  BY <1>16 DEF vars
<1> QED
  BY <1>1, <1>2, <1>3, <1>5, <1>6, <1>7, <1>8, <1>9, <1>10, <1>11, <1>12, <1>13, <1>14, <1>15, <1>16
     DEF Next, EngineNext, ThreadNext, Finished

LEMMA AddonTypedNext ==
    ASSUME addon \subseteq Requests, [Next]_vars
    PROVE  addon' \subseteq Requests
<1> USE DEF life
<1>1. CASE CloseEngine \/ CloseTask
  BY <1>1 DEF CloseEngine, CloseTask
<1>2. CASE StartGraph
  BY <1>2 DEF StartGraph, Requests
<1>3. ASSUME NEW g \in Group, GroupCreated(g) \/ FindInfo(g) \/ RemoveThread(g) \/ ThreadClosed(g)
                              \/ ThreadExit(g)
      PROVE  addon' = addon
  BY <1>3 DEF GroupCreated, FindInfo, RemoveThread, ThreadClosed, ThreadExit
<1>4. ASSUME NEW g \in Group, AddonDone(g) PROVE addon' \subseteq addon
  BY <1>4 DEF AddonDone, GroupInstance, ThreadReply
<1>5. ASSUME NEW g \in Group, GroupInitDone(g) PROVE addon' \subseteq Requests
  BY <1>5, ExtGroup DEF GroupInitDone, Requests
<1>6. ASSUME NEW g \in Group, RemovedFromEngine(g) PROVE addon' \subseteq Requests
  BY <1>6 DEF RemovedFromEngine, Requests
<1>7. ASSUME NEW g \in Group, NEW x \in ExtOf(g), DelExtension(g, x) PROVE addon' \subseteq Requests
  BY <1>7, ExtGroup DEF DelExtension, Requests, Extensions
<1>8. ASSUME NEW g \in Group,
             \/ Start(g) \/ TriggerClose(g) \/ StopLifeCycleTask(g) \/ StartLifeCycle(g)
             \/ AllExtensionsDeleted(g) \/ GroupDeinitDone(g) \/ GroupDestroyed(g)
             \/ \E x \in ExtOf(g) :
                   \/ ExtensionCreated(g, x) \/ OnInit(g, x) \/ OnStart(g, x) \/ TimersClosed(g, x)
                   \/ ProxyDeleted(g, x) \/ ExtensionDestroyed(g, x)
      PROVE  addon' = addon
  BY <1>8 DEF Start, TriggerClose, StopLifeCycleTask, StartLifeCycle, AllExtensionsDeleted,
     GroupDeinitDone, GroupDestroyed, ExtensionCreated, OnInit, OnStart, Callback, TimersClosed,
     ProxyDeleted, ExtensionDestroyed
<1>9. ASSUME NEW x \in Extension, UserNext(x) \/ CreateProxy(x) \/ ReleaseProxy(x)
      PROVE  addon' = addon
  BY <1>9 DEF UserNext, OnConfigureDone, OnInitDone, OnStartDone, OnStopDone, OnDeinitDone,
     Proceed, Calls, CreateProxy, ReleaseProxy
<1>10. CASE UNCHANGED vars
  BY <1>10 DEF vars
<1> QED
  BY <1>1, <1>2, <1>3, <1>4, <1>5, <1>6, <1>7, <1>8, <1>9, <1>10
     DEF Next, EngineNext, ThreadNext, Finished

-----------------------------------------------------------------------------
(* How far the thread of a group has come.  A group that is there goes     *)
(* through the places 1 to 20, and each task or request about it, of which *)
(* there is one at a time, belongs to one of them:                         *)
(*    1  nothing has been asked for                                        *)
(*    2  create_group is asked for        3  group_created                 *)
(*    4  the thread is attached to the context, but has no runloop yet     *)
(*    5  start                            6  group_init_done               *)
(*    7  the extensions are created       8  find_info                     *)
(*    9  start_life_cycle, or stop_life_cycle                              *)
(*   10  the extensions are alive        11  they are destroyed            *)
(*   12  all_extensions_deleted          13  group_deinit_done             *)
(*   14  remove_thread                   15  removed_from_engine           *)
(*   16  destroy_group is asked for      17  group_destroyed               *)
(*   18  the runloop has stopped         19  thread_closed                 *)
(*   20  the thread has been joined                                        *)

Places == 1..20

\* What the engine's runloop q has for the group g in the place p.
EngineHas(g, p, q) ==
    /\ Has(q, <<"group_created", g>>) => p = 3
    /\ Has(q, <<"find_info", g>>) => p = 8
    /\ Has(q, <<"remove_thread", g>>) => p = 14
    /\ Has(q, <<"thread_closed", g>>) => p = 19
    /\ Once(q, <<"group_created", g>>) /\ Once(q, <<"find_info", g>>)
    /\ Once(q, <<"remove_thread", g>>) /\ Once(q, <<"thread_closed", g>>)

\* What the app's thread has been asked for.
AddonHas(g, p, requests) ==
    /\ <<"create_group", g>> \in requests => p = 2
    /\ <<"destroy_group", g>> \in requests => p = 16

\* What the runloop q of the group's thread has; told if the thread was told to close.
ThreadHas(g, p, q, told) ==
    /\ Has(q, <<"start", g>>) => p = 5 /\ Precedes(q, <<"start", g>>, <<"trigger_close", g>>)
    /\ Has(q, <<"group_init_done", g>>) =>
           \/ p = 6
           \/ p = 13 /\ Precedes(q, <<"group_init_done", g>>, <<"group_deinit_done", g>>)
    /\ Has(q, <<"start_life_cycle", g>>) => p = 9 /\ ~Has(q, <<"stop_life_cycle", g>>)
    /\ Has(q, <<"stop_life_cycle", g>>) => p = 9 /\ told
    /\ Has(q, <<"all_extensions_deleted", g>>) => p = 12
    /\ Has(q, <<"group_deinit_done", g>>) => p = 13
    /\ Has(q, <<"removed_from_engine", g>>) => p = 15
    /\ Has(q, <<"group_destroyed", g>>) => p = 17
    /\ Has(q, <<"trigger_close", g>>) => ~told /\ p \in 5..10

ThreadOnce(g, q) ==
    /\ Once(q, <<"start", g>>) /\ Once(q, <<"group_init_done", g>>)
    /\ Once(q, <<"start_life_cycle", g>>) /\ Once(q, <<"stop_life_cycle", g>>)
    /\ Once(q, <<"all_extensions_deleted", g>>) /\ Once(q, <<"group_deinit_done", g>>)
    /\ Once(q, <<"removed_from_engine", g>>) /\ Once(q, <<"group_destroyed", g>>)
    /\ Once(q, <<"trigger_close", g>>)

\* The thread's runloop and state, whether the context has it, and whether it was told.
ThreadIs(p, loop, state, attached, told) ==
    /\ loop = IF p <= 4 THEN "none" ELSE IF p <= 17 THEN "running"
              ELSE IF p = 18 THEN "stopped" ELSE "exited"
    /\ attached <=> p \in 4..14
    /\ state = "INIT" => p <= 6 \/ p >= 13
    /\ state = "CREATING_EXTENSIONS" => p \in 7..10
    /\ state = "NORMAL" => p = 10 /\ ~told
    /\ state = "PREPARE_TO_CLOSE" => p \in 10..18 /\ told
    /\ state = "CLOSED" => p >= 19
    /\ p >= 11 => told

\* The creation and the destruction of the extension x, in the state s.
Answers(x, p, q, s, requests) ==
    /\ <<"create_ext", x>> \in requests =>
           p = 7 /\ s = "none" /\ ~Has(q, <<"ext_created", x>>) /\ ~Has(q, <<"ext_failed", x>>)
    /\ Has(q, <<"ext_created", x>>) => p = 7 /\ s = "none" /\ ~Has(q, <<"ext_failed", x>>)
    /\ Has(q, <<"ext_failed", x>>) => p = 7 /\ s = "none"
    /\ <<"destroy_ext", x>> \in requests => p = 11 /\ s = "deleted" /\ ~Has(q, <<"ext_destroyed", x>>)
    /\ Has(q, <<"ext_destroyed", x>>) => p = 11 /\ s = "deleted"
    /\ Once(q, <<"ext_created", x>>) /\ Once(q, <<"ext_failed", x>>) /\ Once(q, <<"ext_destroyed", x>>)

\* The states in which an extension gets callbacks and may have proxies.
Living == (StartFlow \ {"INIT"}) \union {"ON_STOP", "ON_STOP_DONE", "ON_DEINIT", "ON_DEINIT_DONE"}

\* An extension in the state s, when its thread is in the given place and state.
ExtensionIs(p, s, state, told) ==
    /\ s = "none" => p <= 7 \/ p >= 13
    /\ s = "failed" => p >= 7
    /\ s = "INIT" => p \in 7..10
    /\ s \in Living => p = 10 /\ state \in {"NORMAL", "PREPARE_TO_CLOSE"}
    /\ s = "deleted" => p \in 10..11
    /\ s = "destroyed" => p >= 11
    /\ s \in CloseFlow => told /\ state \in {"PREPARE_TO_CLOSE", "CLOSED"}

\* x has been stopped while its task was queued: the task comes before x is deinitialised.
StoppedBefore(task, x, q, s, timed) ==
    \/ s = "ON_STOP" /\ timed
    \/ s = "ON_STOP_DONE" /\ Precedes(q, task, <<"timers_closed", x>>)

\* The tasks that carry on the life of x, and what they say of its state; timed if it has
\* path timers, px is the state of its proxy.
LifeGoesOn(x, q, s, timed, px) ==
    /\ Has(q, <<"on_init", x>>) =>
           s = "ON_CONFIGURE_DONE" \/ StoppedBefore(<<"on_init", x>>, x, q, s, timed)
    /\ Has(q, <<"on_start", x>>) =>
           s = "ON_INIT_DONE" \/ StoppedBefore(<<"on_start", x>>, x, q, s, timed)
    /\ Has(q, <<"timers_closed", x>>) => s = "ON_STOP_DONE"
    /\ Has(q, <<"proxy_deleted", x>>) => px = "released"
    /\ Has(q, <<"del_extension", x>>) => s = "ON_DEINIT_DONE" /\ px \in {"never", "gone"}
    /\ Once(q, <<"on_init", x>>) /\ Once(q, <<"on_start", x>>) /\ Once(q, <<"timers_closed", x>>)
    /\ Once(q, <<"proxy_deleted", x>>) /\ Once(q, <<"del_extension", x>>)
    /\ px \in {"held", "released"} => s \in Living
    /\ s \in {"ON_CONFIGURE_DONE", "ON_INIT", "ON_INIT_DONE", "ON_START", "ON_START_DONE"} => timed

Told(g) == g \in is_close_triggered

ExtensionAt(x, p) ==
    /\ Answers(x, p, t_queue[x[1]], ext_state[x], addon)
    /\ ExtensionIs(p, ext_state[x], t_state[x[1]], Told(x[1]))
    /\ LifeGoesOn(x, t_queue[x[1]], ext_state[x], x \in path_timers, proxy[x])

\* The group g is in the place p.
At(g, p) ==
    /\ EngineHas(g, p, e_queue)
    /\ AddonHas(g, p, addon)
    /\ ThreadHas(g, p, t_queue[g], Told(g))
    /\ ThreadOnce(g, t_queue[g])
    /\ ThreadIs(p, runloop[g], t_state[g], g \in threads, Told(g))
    /\ \A x \in ExtOf(g) : ExtensionAt(x, p)

-----------------------------------------------------------------------------
(* What the places of the groups say of the engine.                        *)

\* The groups start together, when all of their threads are attached.
StartsTogether(place) ==
    /\ Has(e_queue, <<"start_graph", 0>>) \/ extension_context = "none" =>
           \A g \in Group : place[g] = 1
    /\ Once(e_queue, <<"start_graph", 0>>)
    /\ Has(e_queue, <<"start_graph", 0>>) => start_graph = "none"
    /\ (\A g \in Group : place[g] <= 4) \/ (\A g \in Group : place[g] > 4)
    /\ start_graph \in {"ok", "error"} => \A g \in Group : place[g] > 4

\* No close meets a part of the threads: it comes before the first or after the last.
ClosesAll(place) ==
    /\ engine = "running" /\ Has(e_queue, <<"close", 0>>) =>
          \/ \A g \in Group : place[g] > 4
          \/ \A g \in Group :
                place[g] <= 3 /\ Precedes(e_queue, <<"close", 0>>, <<"group_created", g>>)
    /\ engine = "running" /\ is_closing =>
          cnt.total = Cardinality(Group) /\ \A g \in Group : place[g] > 4
    /\ engine = "closed" =>
          is_closing /\ ((\A g \in Group : place[g] <= 3) \/ (\A g \in Group : place[g] = 20))
    /\ extension_context = "closed" => engine = "closed"

\* Only an engine that closes tells a thread to.
ToldByEngine ==
    ~is_closing => \A g \in Group : ~Told(g) /\ ~Has(t_queue[g], <<"trigger_close", g>>)

Ready(place) == {g \in Group : place[g] >= 9}
Gone(place) == {g \in Group : place[g] = 20}

CountsAgree(place) ==
    /\ cnt.closed = Cardinality(Gone(place))
    /\ cnt.ready <= Cardinality(Ready(place))
    /\ ~is_closing => cnt.ready = Cardinality(Ready(place))

\* The answer to start_graph, when nobody closes the engine before it.
AnswerIsRight(place) ==
    CloseFrom = "answered" =>
        /\ start_graph \in {"none", "pending"} => ~is_closing /\ ~Has(e_queue, <<"close", 0>>)
        /\ start_graph \in {"ok", "error"} =>
              /\ \A g \in Group : place[g] >= 9
              /\ cnt.ready = Cardinality(Group)
              /\ start_graph = "ok" <=> err_before_ready = {}

EngineAt(place) ==
    /\ StartsTogether(place)
    /\ ClosesAll(place)
    /\ ToldByEngine
    /\ CountsAgree(place)
    /\ AnswerIsRight(place)

Placed(place) == (\A g \in Group : At(g, place[g])) /\ EngineAt(place)

LifecycleInv == Typed /\ \E place \in [Group -> Places] : Placed(place)

-----------------------------------------------------------------------------
(* What a step does to the runloops.                                       *)

EngineMoves(took, posts) ==
    /\ e_queue' \in Seq(EngineTasks)
    /\ Moves(e_queue, e_queue', took, posts)

\* Only the runloop of g changes.
ThreadMoves(g, took, posts) ==
    /\ t_queue' = [h \in Group |-> t_queue'[h]]
    /\ \A h \in Group : h # g => t_queue'[h] = t_queue[h]
    /\ t_queue'[g] \in Seq(ThreadTasks(g))
    /\ Moves(t_queue[g], t_queue'[g], took, posts)

LEMMA MovesTyped ==
    ASSUME QueuesTyped, NEW et, NEW ep, EngineMoves(et, ep),
           NEW g \in Group, NEW tt, NEW tp, ThreadMoves(g, tt, tp)
    PROVE  QueuesTyped'
<1>1. \A h \in Group : t_queue'[h] \in Seq(ThreadTasks(h))
  <2> SUFFICES ASSUME NEW h \in Group PROVE t_queue'[h] \in Seq(ThreadTasks(h))
    OBVIOUS
  <2>1. CASE h = g
    BY <2>1 DEF ThreadMoves
  <2>2. CASE h # g
    BY <2>2 DEF ThreadMoves, QueuesTyped
  <2> QED BY <2>1, <2>2
<1> QED BY <1>1 DEF QueuesTyped, EngineMoves, ThreadMoves, ThreadTasks

LEMMA EngineMovesTyped ==
    ASSUME QueuesTyped, NEW et, NEW ep, EngineMoves(et, ep), t_queue' = t_queue
    PROVE  QueuesTyped'
BY DEF QueuesTyped, EngineMoves, ThreadTasks

LEMMA EngineTakes ==
    ASSUME QueuesTyped, NEW n, NEW a
    PROVE  /\ EngineTask(n, a, <<>>) => EngineMoves({<<n, a>>}, {})
           /\ \A u \in EngineTasks : EngineTask(n, a, <<u>>) => EngineMoves({<<n, a>>}, {u})
<1>1. e_queue \in Seq(EngineTasks)
  BY DEF QueuesTyped
<1>2. ASSUME EngineTask(n, a, <<>>) PROVE EngineMoves({<<n, a>>}, {})
  <2> DEFINE t == <<n, a>>
             none == <<>>
  <2>1. e_queue # <<>> /\ Head(e_queue) = t /\ e_queue' = Tail(e_queue) \o none
    BY <1>2 DEF EngineTask
  <2>2. none \in Seq(EngineTasks)
    BY EmptySeq
  <2> HIDE DEF t, none
  <2>3. Tail(e_queue) \in Seq(EngineTasks)
    BY <1>1, <2>1, Tailed
  <2>4. e_queue' \in Seq(EngineTasks)
    BY <2>1, <2>2, <2>3, Joined
  <2>5. <<"close", 0>> \in EngineTasks
    BY EngineKinds
  <2>6. Moves(e_queue, Tail(e_queue) \o <<>>, {Head(e_queue)}, {})
    BY <1>1, <2>1, <2>5, MovesOne
  <2> QED BY <2>1, <2>4, <2>6 DEF EngineMoves, t, none
<1>3. ASSUME NEW u \in EngineTasks, EngineTask(n, a, <<u>>) PROVE EngineMoves({<<n, a>>}, {u})
  <2> DEFINE t == <<n, a>>
             us == <<u>>
  <2>1. e_queue # <<>> /\ Head(e_queue) = t /\ e_queue' = Tail(e_queue) \o us
    BY <1>3 DEF EngineTask
  <2>2. us \in Seq(EngineTasks)
    OBVIOUS
  <2> HIDE DEF t, us
  <2>3. Tail(e_queue) \in Seq(EngineTasks)
    BY <1>1, <2>1, Tailed
  <2>4. e_queue' \in Seq(EngineTasks)
    BY <2>1, <2>2, <2>3, Joined
  <2>5. Moves(e_queue, Tail(e_queue) \o <<u>>, {Head(e_queue)}, {u})
    BY <1>1, <2>1, MovesOne
  <2> QED BY <2>1, <2>4, <2>5 DEF EngineMoves, t, us
<1> QED BY <1>2, <1>3

LEMMA EnginePosts ==
    ASSUME QueuesTyped
    PROVE  /\ e_queue' = e_queue => EngineMoves({}, {})
           /\ \A u \in EngineTasks : e_queue' = Append(e_queue, u) => EngineMoves({}, {u})
<1>1. e_queue \in Seq(EngineTasks)
  BY DEF QueuesTyped
<1>2. e_queue' = e_queue => EngineMoves({}, {})
  BY <1>1, MovesNot DEF EngineMoves
<1>3. ASSUME NEW u \in EngineTasks, e_queue' = Append(e_queue, u) PROVE EngineMoves({}, {u})
  <2>1. Moves(e_queue, Append(e_queue, u), {}, {u})
    BY <1>1, MovesOne
  <2>2. Append(e_queue, u) \in Seq(EngineTasks)
    BY <1>1, HasAppended
  <2> QED BY <1>3, <2>1, <2>2 DEF EngineMoves
<1> QED BY <1>2, <1>3

LEMMA ThreadTakes ==
    ASSUME QueuesTyped, NEW g \in Group, NEW n, NEW a
    PROVE  /\ ThreadTask(g, n, a, <<>>) => ThreadMoves(g, {<<n, a>>}, {})
           /\ \A u \in ThreadTasks(g) : ThreadTask(g, n, a, <<u>>) => ThreadMoves(g, {<<n, a>>}, {u})
<1>1. t_queue = [h \in Group |-> t_queue[h]] /\ t_queue[g] \in Seq(ThreadTasks(g))
  BY DEF QueuesTyped
<1>2. ASSUME ThreadTask(g, n, a, <<>>) PROVE ThreadMoves(g, {<<n, a>>}, {})
  <2> DEFINE t == <<n, a>>
             none == <<>>
             q == t_queue[g]
  <2>1. q # <<>> /\ Head(q) = t /\ t_queue' = [t_queue EXCEPT ![g] = Tail(@) \o none]
    BY <1>2 DEF ThreadTask
  <2>2. none \in Seq(ThreadTasks(g))
    BY EmptySeq
  <2> HIDE DEF t, none
  <2>3. Tail(q) \in Seq(ThreadTasks(g))
    BY <1>1, <2>1, Tailed
  <2>4. Tail(q) \o none \in Seq(ThreadTasks(g))
    BY <2>2, <2>3, Joined
  <2>5. <<"start", g>> \in ThreadTasks(g)
    BY ThreadKinds
  <2>6. Moves(q, Tail(q) \o <<>>, {Head(q)}, {})
    BY <1>1, <2>1, <2>5, MovesOne
  <2>7. /\ t_queue' = [h \in Group |-> t_queue'[h]]
        /\ \A h \in Group : h # g => t_queue'[h] = t_queue[h]
        /\ t_queue'[g] = Tail(q) \o none
    BY <1>1, <2>1
  <2> QED BY <2>1, <2>4, <2>6, <2>7 DEF ThreadMoves, t, none
<1>3. ASSUME NEW u \in ThreadTasks(g), ThreadTask(g, n, a, <<u>>)
      PROVE  ThreadMoves(g, {<<n, a>>}, {u})
  <2> DEFINE t == <<n, a>>
             us == <<u>>
             q == t_queue[g]
  <2>1. q # <<>> /\ Head(q) = t /\ t_queue' = [t_queue EXCEPT ![g] = Tail(@) \o us]
    BY <1>3 DEF ThreadTask
  <2>2. us \in Seq(ThreadTasks(g))
    OBVIOUS
  <2> HIDE DEF t, us
  <2>3. Tail(q) \in Seq(ThreadTasks(g))
    BY <1>1, <2>1, Tailed
  <2>4. Tail(q) \o us \in Seq(ThreadTasks(g))
    BY <2>2, <2>3, Joined
  <2>5. Moves(q, Tail(q) \o <<u>>, {Head(q)}, {u})
    BY <1>1, <2>1, MovesOne
  <2>6. /\ t_queue' = [h \in Group |-> t_queue'[h]]
        /\ \A h \in Group : h # g => t_queue'[h] = t_queue[h]
        /\ t_queue'[g] = Tail(q) \o us
    BY <1>1, <2>1
  <2> QED BY <2>1, <2>4, <2>5, <2>6 DEF ThreadMoves, t, us
<1> QED BY <1>2, <1>3

LEMMA ThreadPosts ==
    ASSUME QueuesTyped, NEW g \in Group
    PROVE  /\ t_queue' = t_queue => ThreadMoves(g, {}, {})
           /\ \A u \in ThreadTasks(g) :
                 /\ t_queue' = [t_queue EXCEPT ![g] = Append(@, u)] => ThreadMoves(g, {}, {u})
                 /\ t_queue' = [t_queue EXCEPT ![g] = @ \o <<u>>] => ThreadMoves(g, {}, {u})
           /\ t_queue' = [t_queue EXCEPT ![g] = @ \o <<>>] => ThreadMoves(g, {}, {})
<1> DEFINE q == t_queue[g]
<1>1. t_queue = [h \in Group |-> t_queue[h]] /\ q \in Seq(ThreadTasks(g))
  BY DEF QueuesTyped
<1>2. t_queue' = t_queue => ThreadMoves(g, {}, {})
  BY <1>1, MovesNot DEF ThreadMoves
<1>3. \A r : r \in Seq(ThreadTasks(g)) /\ t_queue' = [t_queue EXCEPT ![g] = r] =>
             /\ t_queue' = [h \in Group |-> t_queue'[h]]
             /\ \A h \in Group : h # g => t_queue'[h] = t_queue[h]
             /\ t_queue'[g] \in Seq(ThreadTasks(g))
             /\ t_queue'[g] = r
  BY <1>1
<1>4. ASSUME NEW u \in ThreadTasks(g)
      PROVE  /\ Append(q, u) \in Seq(ThreadTasks(g)) /\ Append(q, u) = q \o <<u>>
             /\ Moves(q, Append(q, u), {}, {u})
  <2>1. Moves(q, Append(q, u), {}, {u})
    BY <1>1, MovesOne
  <2>2. Append(q, u) = q \o <<u>>
    BY <1>1, HasAppended
  <2>3. Append(q, u) \in Seq(ThreadTasks(g))
    BY <1>1, HasAppended
  <2> QED BY <2>1, <2>2, <2>3
<1>5. <<"start", g>> \in ThreadTasks(g)
  BY ThreadKinds
<1>6. Moves(q, q \o <<>>, {}, {})
  BY <1>1, <1>5, MovesOne
<1>7. q \o <<>> \in Seq(ThreadTasks(g))
  <2> DEFINE none == <<>>
  <2>1. none \in Seq(ThreadTasks(g))
    BY EmptySeq
  <2> HIDE DEF none
  <2>2. q \o none \in Seq(ThreadTasks(g))
    BY <1>1, <2>1, Joined
  <2> QED BY <2>2 DEF none
<1>8. t_queue' = [t_queue EXCEPT ![g] = @ \o <<>>] => ThreadMoves(g, {}, {})
  <2> DEFINE r == q \o <<>>
  <2>1. r \in Seq(ThreadTasks(g)) /\ Moves(q, r, {}, {})
    BY <1>6, <1>7
  <2>2. t_queue' = [t_queue EXCEPT ![g] = @ \o <<>>] => t_queue' = [t_queue EXCEPT ![g] = r]
    OBVIOUS
  <2> HIDE DEF r
  <2> QED BY <1>3, <2>1, <2>2 DEF ThreadMoves
<1>9. ASSUME NEW u \in ThreadTasks(g)
      PROVE  /\ t_queue' = [t_queue EXCEPT ![g] = Append(@, u)] => ThreadMoves(g, {}, {u})
             /\ t_queue' = [t_queue EXCEPT ![g] = @ \o <<u>>] => ThreadMoves(g, {}, {u})
  <2> DEFINE r == Append(q, u)
  <2>1. r \in Seq(ThreadTasks(g)) /\ Moves(q, r, {}, {u}) /\ r = q \o <<u>>
    BY <1>4
  <2>2. /\ t_queue' = [t_queue EXCEPT ![g] = Append(@, u)] => t_queue' = [t_queue EXCEPT ![g] = r]
        /\ t_queue' = [t_queue EXCEPT ![g] = @ \o <<u>>] => t_queue' = [t_queue EXCEPT ![g] = r]
    BY <2>1
  <2> HIDE DEF r
  <2> QED BY <1>3, <2>1, <2>2 DEF ThreadMoves
<1> QED BY <1>2, <1>8, <1>9

-----------------------------------------------------------------------------
(* What a step leaves alone.                                               *)

EngineNames == {"group_created", "find_info", "remove_thread", "thread_closed"}

\* The step is not about the group h, and neither takes nor posts a task of it.
Spares(h) ==
    /\ t_queue'[h] = t_queue[h] /\ runloop'[h] = runloop[h] /\ t_state'[h] = t_state[h]
    /\ h \in threads' <=> h \in threads
    /\ h \in is_close_triggered' <=> h \in is_close_triggered
    /\ \A n \in EngineNames : /\ Has(e_queue', <<n, h>>) => Has(e_queue, <<n, h>>)
                              /\ Once(e_queue, <<n, h>>) => Once(e_queue', <<n, h>>)
    /\ \A n \in {"create_group", "destroy_group"} : <<n, h>> \in addon' => <<n, h>> \in addon
    /\ \A x \in ExtOf(h) :
          /\ ext_state'[x] = ext_state[x] /\ proxy'[x] = proxy[x]
          /\ x \in path_timers' <=> x \in path_timers
          /\ \A n \in {"create_ext", "destroy_ext"} : <<n, x>> \in addon' => <<n, x>> \in addon

LEMMA Spared ==
    ASSUME NEW h \in Group, NEW p \in Places, At(h, p), Spares(h)
    PROVE  At(h, p)'
<1>1. EngineHas(h, p, e_queue')
  BY DEF At, EngineHas, Spares, EngineNames
<1>2. AddonHas(h, p, addon')
  BY DEF At, AddonHas, Spares
<1>3. ThreadHas(h, p, t_queue'[h], h \in is_close_triggered') /\ ThreadOnce(h, t_queue'[h])
  <2>1. t_queue'[h] = t_queue[h]
    BY DEF Spares
  <2>2. ThreadOnce(h, t_queue[h])
    BY DEF At
  <2>3. ThreadHas(h, p, t_queue[h], h \in is_close_triggered')
    BY DEF At, ThreadHas, Spares, Told
  <2> QED BY <2>1, <2>2, <2>3
<1>4. ThreadIs(p, runloop'[h], t_state'[h], h \in threads', h \in is_close_triggered')
  BY DEF At, ThreadIs, Spares, Told
<1>5. ASSUME NEW x \in ExtOf(h) PROVE ExtensionAt(x, p)'
  <2>1. /\ t_queue'[h] = t_queue[h] /\ ext_state'[x] = ext_state[x] /\ proxy'[x] = proxy[x]
        /\ t_state'[h] = t_state[h]
    BY DEF Spares
  <2>2. x[1] = h
    BY ExtGroup
  <2>3. /\ Answers(x, p, t_queue[h], ext_state[x], addon)
        /\ ExtensionIs(p, ext_state[x], t_state[h], Told(h))
        /\ LifeGoesOn(x, t_queue[h], ext_state[x], x \in path_timers, proxy[x])
    BY <2>2 DEF At, ExtensionAt
  <2>4. Answers(x, p, t_queue[h], ext_state[x], addon')
    BY <2>3 DEF Answers, Spares
  <2>5. ExtensionIs(p, ext_state[x], t_state[h], h \in is_close_triggered')
    BY <2>3 DEF ExtensionIs, Spares, Told
  <2>6. LifeGoesOn(x, t_queue[h], ext_state[x], x \in path_timers', proxy[x])
    BY <2>3 DEF LifeGoesOn, StoppedBefore, Spares
  <2> QED BY <2>1, <2>2, <2>4, <2>5, <2>6 DEF ExtensionAt, Told
<1> QED BY <1>1, <1>2, <1>3, <1>4, <1>5 DEF At, Told

\* A queue keeps what it says of x when other tasks are taken and posted.
LEMMA LifeStays ==
    ASSUME NEW x, NEW q, NEW r, NEW took, NEW posts, Moves(q, r, took, posts), NEW s,
           NEW timed, NEW px, LifeGoesOn(x, q, s, timed, px),
           \A n \in {"on_init", "on_start", "timers_closed", "proxy_deleted", "del_extension"} :
               <<n, x>> \notin took /\ <<n, x>> \notin posts
    PROVE  LifeGoesOn(x, r, s, timed, px)
<1>1. \A n \in {"on_init", "on_start", "timers_closed", "proxy_deleted", "del_extension"} :
          /\ Has(r, <<n, x>>) => Has(q, <<n, x>>)
          /\ Once(q, <<n, x>>) => Once(r, <<n, x>>)
  BY DEF Moves
<1>2. \A n \in {"on_init", "on_start"} :
          StoppedBefore(<<n, x>>, x, q, s, timed) => StoppedBefore(<<n, x>>, x, r, s, timed)
  BY DEF Moves, StoppedBefore
<1> QED BY <1>1, <1>2 DEF LifeGoesOn

-----------------------------------------------------------------------------
(* A step of one group, seen from the engine.                              *)

LEMMA Replaced ==
    ASSUME NEW place \in [Group -> Places], NEW g \in Group, NEW b \in Places
    PROVE  /\ [place EXCEPT ![g] = b] \in [Group -> Places]
           /\ [place EXCEPT ![g] = b][g] = b
           /\ \A h \in Group : h # g => [place EXCEPT ![g] = b][h] = place[h]
OBVIOUS

LEMMA EngineKeeps ==
    ASSUME Typed, NEW place \in [Group -> Places], Placed(place), NEW g \in Group, NEW b \in Places,
           place[g] \in 5..19, b \in 5..19, place[g] <= b,
           place[g] >= 9 \/ b <= 8 \/ is_closing,
           UNCHANGED <<engine, extension_context, is_closing, cnt, start_graph>>,
           NEW took, NEW posts, EngineMoves(took, posts),
           <<"start_graph", 0>> \notin posts, <<"close", 0>> \notin posts,
           \A h \in Group : h # g => Spares(h),
           is_closing \/ (g \notin is_close_triggered' /\ ~Has(t_queue'[g], <<"trigger_close", g>>)),
           err_before_ready' = err_before_ready \/ place[g] <= 8
    PROVE  EngineAt([place EXCEPT ![g] = b])'
<1> DEFINE next == [place EXCEPT ![g] = b]
<1>1. /\ next \in [Group -> Places] /\ next[g] = b
      /\ \A h \in Group : h # g => next[h] = place[h]
  BY Replaced
<1> HIDE DEF next
<1>2. /\ StartsTogether(place) /\ ClosesAll(place) /\ ToldByEngine /\ CountsAgree(place)
      /\ AnswerIsRight(place)
  BY DEF Placed, EngineAt
<1>3. /\ Has(e_queue', <<"start_graph", 0>>) => Has(e_queue, <<"start_graph", 0>>)
      /\ Has(e_queue', <<"close", 0>>) => Has(e_queue, <<"close", 0>>)
      /\ Once(e_queue, <<"start_graph", 0>>) => Once(e_queue', <<"start_graph", 0>>)
  BY DEF EngineMoves, Moves
<1>4. \A h \in Group : place[h] > 4 /\ next[h] > 4
  <2>1. \A h \in Group : place[h] > 4
    BY <1>2 DEF StartsTogether
  <2> QED BY <1>1, <2>1
<1>5. StartsTogether(next)'
  BY <1>2, <1>3, <1>4 DEF StartsTogether
<1>6. ClosesAll(next)'
  BY <1>2, <1>3, <1>4 DEF ClosesAll
<1>7. ToldByEngine'
  BY <1>2 DEF ToldByEngine, Told, Spares
<1>8. Gone(next) = Gone(place)
  BY <1>1 DEF Gone
<1>9. Cardinality(Ready(place)) <= Cardinality(Ready(next)) /\ (~is_closing => Ready(next) = Ready(place))
  <2>1. Ready(place) \subseteq Ready(next)
    BY <1>1 DEF Ready, Places
  <2>2. ~is_closing => Ready(next) \subseteq Ready(place)
    BY <1>1 DEF Ready, Places
  <2>3. Ready(next) \subseteq Group
    BY DEF Ready
  <2> QED BY <2>1, <2>2, <2>3, Counted, FS_Subset
<1>10. Cardinality(Ready(place)) \in Nat /\ Cardinality(Ready(next)) \in Nat /\ cnt.ready \in Nat
  BY Counted DEF Ready, Typed, EngineTyped
<1>11. CountsAgree(next)'
  BY <1>2, <1>8, <1>9, <1>10 DEF CountsAgree
<1>12. AnswerIsRight(next)'
  <2> SUFFICES ASSUME CloseFrom = "answered"
               PROVE  /\ start_graph \in {"none", "pending"} => ~is_closing /\ ~Has(e_queue', <<"close", 0>>)
                      /\ start_graph \in {"ok", "error"} =>
                            /\ \A h \in Group : next[h] >= 9
                            /\ cnt.ready = Cardinality(Group)
                            /\ start_graph = "ok" <=> err_before_ready' = {}
    BY DEF AnswerIsRight
  <2>1. start_graph \in {"ok", "error"} => place[g] >= 9
    BY <1>2 DEF AnswerIsRight
  <2>2. start_graph \in {"ok", "error"} => \A h \in Group : next[h] >= 9
    BY <1>1, <1>2 DEF AnswerIsRight
  <2> QED BY <1>2, <1>3, <2>1, <2>2 DEF AnswerIsRight
<1> QED BY <1>5, <1>6, <1>7, <1>11, <1>12 DEF EngineAt, next

\* A step of one group, from the place it is in to the place b.
LEMMA GroupMoves ==
    ASSUME Typed, NEW place \in [Group -> Places], Placed(place), NEW g \in Group, NEW b \in Places,
           \A h \in Group : h # g => Spares(h),
           At(g, b)', EngineAt([place EXCEPT ![g] = b])'
    PROVE  \E next \in [Group -> Places] : Placed(next)'
<1> DEFINE next == [place EXCEPT ![g] = b]
<1>1. /\ next \in [Group -> Places] /\ next[g] = b
      /\ \A h \in Group : h # g => next[h] = place[h]
  BY Replaced
<1>2. EngineAt(next)'
  OBVIOUS
<1> HIDE DEF next
<1>3. ASSUME NEW h \in Group PROVE At(h, next[h])'
  <2>1. CASE h = g
    BY <1>1, <2>1
  <2>2. CASE h # g
    <3>1. At(h, place[h]) /\ Spares(h) /\ place[h] \in Places
      BY <2>2 DEF Placed
    <3>2. At(h, place[h])'
      BY <3>1, Spared
    <3> QED BY <1>1, <2>2, <3>2
  <2> QED BY <2>1, <2>2
<1>4. Placed(next)'
  BY <1>2, <1>3 DEF Placed
<1> QED BY <1>1, <1>4

-----------------------------------------------------------------------------
(* The life of one extension.                                              *)

LifeTasks(x) ==
    {<<n, x>> : n \in {"on_init", "on_start", "timers_closed", "proxy_deleted", "del_extension"}}

\* Only the extension x takes a step, and it is alive before and after it.
LEMMA LifeStep ==
    ASSUME Typed, NEW place \in [Group -> Places], Placed(place), NEW g \in Group, NEW x \in ExtOf(g),
           ext_state[x] \in Living,
           NEW took \in SUBSET LifeTasks(x), NEW posts \in SUBSET LifeTasks(x),
           ThreadMoves(g, took, posts),
           UNCHANGED <<engine_side, e_queue, runloop, t_state, is_close_triggered,
                       err_before_ready, addon>>,
           \A y \in Extension : y # x =>
               /\ ext_state'[y] = ext_state[y] /\ proxy'[y] = proxy[y]
               /\ y \in path_timers' <=> y \in path_timers,
           ext_state'[x] \in Living, ext_state'[x] \in CloseFlow => Told(g),
           LifeGoesOn(x, t_queue'[g], ext_state'[x], x \in path_timers', proxy'[x])
    PROVE  QueuesTyped' /\ \E next \in [Group -> Places] : Placed(next)'
<1>1. QueuesTyped /\ EngineMoves({}, {})
  BY EnginePosts DEF Typed
<1>2. QueuesTyped'
  BY <1>1, MovesTyped
<1>3. x \in Extension /\ x[1] = g /\ \A h \in Group : \A y \in ExtOf(h) : y \in Extension /\ y[1] = h
  BY ExtGroup
<1>4. ASSUME NEW h \in Group, h # g PROVE Spares(h)
  <2>1. \A y \in ExtOf(h) : y \in Extension /\ y # x
    BY <1>3, <1>4
  <2> QED BY <1>4, <2>1 DEF Spares, ThreadMoves, engine_side, context
<1>5. place[g] = 10 /\ t_state[g] \in {"NORMAL", "PREPARE_TO_CLOSE"} /\ At(g, 10)
  BY <1>3 DEF Placed, At, ExtensionAt, ExtensionIs
<1>6. /\ ThreadHas(g, 10, t_queue[g], Told(g)) /\ ThreadOnce(g, t_queue[g])
      /\ ThreadIs(10, runloop[g], t_state[g], g \in threads, Told(g))
      /\ EngineHas(g, 10, e_queue) /\ AddonHas(g, 10, addon)
      /\ \A y \in ExtOf(g) : ExtensionAt(y, 10)
  BY <1>5 DEF At
<1>7. Moves(t_queue[g], t_queue'[g], took, posts)
  BY DEF ThreadMoves
<1>8. \A n \in {"start", "group_init_done", "start_life_cycle", "stop_life_cycle", "trigger_close",
                "all_extensions_deleted", "group_deinit_done", "removed_from_engine",
                "group_destroyed"} : <<n, g>> \notin took /\ <<n, g>> \notin posts
  BY DEF LifeTasks
<1>9. \A n \in {"start", "group_init_done", "start_life_cycle", "stop_life_cycle", "trigger_close",
                "all_extensions_deleted", "group_deinit_done", "removed_from_engine",
                "group_destroyed"} :
          /\ Has(t_queue'[g], <<n, g>>) => Has(t_queue[g], <<n, g>>)
          /\ Once(t_queue[g], <<n, g>>) => Once(t_queue'[g], <<n, g>>)
  BY <1>7, <1>8 DEF Moves
<1>10. ThreadHas(g, 10, t_queue'[g], Told(g))
  BY <1>6, <1>9 DEF ThreadHas
<1>11. ThreadOnce(g, t_queue'[g])
  BY <1>6, <1>9 DEF ThreadOnce
<1>12. ASSUME NEW y \in ExtOf(g) PROVE ExtensionAt(y, 10)'
  <2>1. /\ Answers(y, 10, t_queue[g], ext_state[y], addon)
        /\ ExtensionIs(10, ext_state[y], t_state[g], Told(g))
        /\ LifeGoesOn(y, t_queue[g], ext_state[y], y \in path_timers, proxy[y])
    BY <1>3, <1>6 DEF ExtensionAt
  <2>2. \A n \in {"ext_created", "ext_failed", "ext_destroyed"} : <<n, y>> \notin posts
    BY DEF LifeTasks
  <2>3. Answers(y, 10, t_queue'[g], ext_state[y], addon)
    <3> DEFINE q == t_queue[g]
               r == t_queue'[g]
               s == ext_state[y]
    <3>1. Moves(q, r, took, posts) /\ Answers(y, 10, q, s, addon)
      BY <1>7, <2>1
    <3> HIDE DEF q, r, s
    <3>2. Answers(y, 10, r, s, addon)
      <4>1. \A n \in {"ext_created", "ext_failed", "ext_destroyed"} :
                /\ Has(r, <<n, y>>) => Has(q, <<n, y>>)
                /\ Once(q, <<n, y>>) => Once(r, <<n, y>>)
        BY <2>2, <3>1 DEF Moves
      <4> QED BY <3>1, <4>1 DEF Answers
    <3> QED BY <3>2 DEF r, s
  <2>4. CASE y = x
    <3>1. Answers(x, 10, t_queue'[g], ext_state'[x], addon)
      BY <2>3, <2>4 DEF Answers
    <3>2. ExtensionIs(10, ext_state'[x], t_state[g], Told(g))
      <4>1. ext_state'[x] \in CloseFlow => t_state[g] = "PREPARE_TO_CLOSE"
        BY <1>5, <1>6 DEF ThreadIs
      <4>2. ext_state'[x] \notin {"none", "failed", "INIT", "deleted", "destroyed"}
        BY DEF Living, StartFlow
      <4> QED BY <1>5, <4>1, <4>2 DEF ExtensionIs
    <3> QED BY <1>3, <2>4, <3>1, <3>2 DEF ExtensionAt, Told
  <2>5. CASE y # x
    <3>1. \A n : <<n, y>> \notin took /\ <<n, y>> \notin posts
      BY <2>5 DEF LifeTasks
    <3>2. LifeGoesOn(y, t_queue'[g], ext_state[y], y \in path_timers, proxy[y])
      BY <1>7, <2>1, <3>1, LifeStays
    <3>3. y \in Extension /\ y[1] = g
      BY <1>3
    <3>4. LifeGoesOn(y, t_queue'[g], ext_state[y], y \in path_timers', proxy[y])
      BY <2>5, <3>2, <3>3 DEF LifeGoesOn, StoppedBefore
    <3>5. ext_state'[y] = ext_state[y] /\ proxy'[y] = proxy[y] /\ t_state' = t_state /\ addon' = addon
      BY <2>5, <3>3
    <3> QED BY <2>1, <2>3, <3>3, <3>4, <3>5 DEF ExtensionAt, Told
  <2> QED BY <2>4, <2>5
<1>13. At(g, 10)'
  BY <1>6, <1>10, <1>11, <1>12 DEF At, Told, engine_side, context
<1>14. EngineAt([place EXCEPT ![g] = 10])'
  <2>1. is_closing \/ (g \notin is_close_triggered' /\ ~Has(t_queue'[g], <<"trigger_close", g>>))
    BY <1>9 DEF Placed, EngineAt, ToldByEngine, Told
  <2>2. UNCHANGED <<engine, extension_context, is_closing, cnt, start_graph>>
    BY DEF engine_side, context
  <2>3. 10 \in Places /\ 10 \in 5..19 /\ place[g] <= 10 /\ place[g] >= 9
    BY <1>5 DEF Places
  <2>4. <<"start_graph", 0>> \notin {} /\ <<"close", 0>> \notin {}
    OBVIOUS
  <2>5. err_before_ready' = err_before_ready
    OBVIOUS
  <2> QED BY <1>1, <1>4, <1>5, <2>1, <2>2, <2>3, <2>4, <2>5, EngineKeeps
<1>15. 10 \in Places
  BY DEF Places
<1> QED BY <1>2, <1>4, <1>13, <1>14, <1>15, GroupMoves

\* What LifeStep asks of the queue, for each kind of step.
LEMMA LifeOnConfigureDone ==
    ASSUME NEW x, NEW q, NEW r, NEW timed, NEW px, LifeGoesOn(x, q, "ON_CONFIGURE", timed, px)
    PROVE  /\ Moves(q, r, {}, {}) => LifeGoesOn(x, r, "ON_STOP", timed, px)
           /\ Moves(q, r, {}, {<<"on_init", x>>}) => LifeGoesOn(x, r, "ON_CONFIGURE_DONE", TRUE, px)
BY DEF LifeGoesOn, Moves, StoppedBefore, Living, StartFlow

LEMMA LifeOnInitDone ==
    ASSUME NEW x, NEW q, NEW r, NEW timed, NEW px, LifeGoesOn(x, q, "ON_INIT", timed, px)
    PROVE  /\ Moves(q, r, {}, {}) => LifeGoesOn(x, r, "ON_STOP", timed, px)
           /\ Moves(q, r, {}, {<<"on_start", x>>}) => LifeGoesOn(x, r, "ON_INIT_DONE", timed, px)
BY DEF LifeGoesOn, Moves, StoppedBefore, Living, StartFlow

LEMMA LifeOnStartDone ==
    ASSUME NEW x, NEW q, NEW r, NEW timed, NEW px, LifeGoesOn(x, q, "ON_START", timed, px),
           Moves(q, r, {}, {})
    PROVE  LifeGoesOn(x, r, "ON_STOP", timed, px) /\ LifeGoesOn(x, r, "ON_START_DONE", timed, px)
BY DEF LifeGoesOn, Moves, StoppedBefore, Living, StartFlow

LEMMA LifeOnStopDone ==
    ASSUME NEW x, NEW q, NEW r, NEW timed, NEW px, LifeGoesOn(x, q, "ON_STOP", timed, px)
    PROVE  /\ ~timed /\ Moves(q, r, {}, {}) => LifeGoesOn(x, r, "ON_DEINIT", timed, px)
           /\ Moves(q, r, {}, {<<"timers_closed", x>>}) => LifeGoesOn(x, r, "ON_STOP_DONE", timed, px)
<1>1. ASSUME ~timed, Moves(q, r, {}, {}) PROVE LifeGoesOn(x, r, "ON_DEINIT", timed, px)
  BY <1>1 DEF LifeGoesOn, Moves, StoppedBefore, Living, StartFlow
<1>2. ASSUME Moves(q, r, {}, {<<"timers_closed", x>>})
      PROVE  LifeGoesOn(x, r, "ON_STOP_DONE", timed, px)
  <2>1. \A n \in {"on_init", "on_start"} :
            Has(q, <<n, x>>) => Precedes(r, <<n, x>>, <<"timers_closed", x>>)
    <3> SUFFICES ASSUME NEW n \in {"on_init", "on_start"}, Has(q, <<n, x>>)
                 PROVE  Precedes(r, <<n, x>>, <<"timers_closed", x>>)
      OBVIOUS
    <3>1. ~Has(q, <<"timers_closed", x>>)
      BY DEF LifeGoesOn
    <3>2. Precedes(q, <<n, x>>, <<"timers_closed", x>>)
      BY <3>1 DEF Precedes, Has
    <3> QED BY <1>2, <3>2 DEF Moves
  <2> QED BY <1>2, <2>1 DEF LifeGoesOn, Moves, StoppedBefore, Living, StartFlow
<1> QED BY <1>1, <1>2

LEMMA LifeOnDeinitDone ==
    ASSUME NEW x, NEW q, NEW r, NEW timed, NEW px, LifeGoesOn(x, q, "ON_DEINIT", timed, px)
    PROVE  /\ Moves(q, r, {}, {}) => LifeGoesOn(x, r, "ON_DEINIT_DONE", timed, px)
           /\ px \in {"never", "gone"} /\ Moves(q, r, {}, {<<"del_extension", x>>}) =>
                  LifeGoesOn(x, r, "ON_DEINIT_DONE", timed, px)
BY DEF LifeGoesOn, Moves, StoppedBefore, Living, StartFlow

\* A callback comes when it is due, or is skipped when x has been stopped meanwhile.
LEMMA LifeCallback ==
    ASSUME NEW x, NEW q, NEW r, NEW s, NEW timed, NEW px, LifeGoesOn(x, q, s, timed, px)
    PROVE  /\ Moves(q, r, {<<"on_init", x>>}, {}) =>
                 \/ s = "ON_CONFIGURE_DONE" /\ LifeGoesOn(x, r, "ON_INIT", timed, px)
                 \/ s \in {"ON_STOP", "ON_STOP_DONE"} /\ LifeGoesOn(x, r, s, timed, px)
           /\ Moves(q, r, {<<"on_start", x>>}, {}) =>
                 \/ s = "ON_INIT_DONE" /\ LifeGoesOn(x, r, "ON_START", timed, px)
                 \/ s \in {"ON_STOP", "ON_STOP_DONE"} /\ LifeGoesOn(x, r, s, timed, px)
<1>1. ASSUME Moves(q, r, {<<"on_init", x>>}, {})
      PROVE  \/ s = "ON_CONFIGURE_DONE" /\ LifeGoesOn(x, r, "ON_INIT", timed, px)
             \/ s \in {"ON_STOP", "ON_STOP_DONE"} /\ LifeGoesOn(x, r, s, timed, px)
  <2>1. Has(q, <<"on_init", x>>) /\ ~Has(r, <<"on_init", x>>)
    BY <1>1 DEF Moves, LifeGoesOn
  <2>2. s \in {"ON_CONFIGURE_DONE", "ON_STOP", "ON_STOP_DONE"}
    BY <2>1 DEF LifeGoesOn, StoppedBefore
  <2>3. CASE s = "ON_CONFIGURE_DONE"
    BY <1>1, <2>1, <2>3 DEF LifeGoesOn, StoppedBefore, Moves, Living, StartFlow
  <2>4. CASE s \in {"ON_STOP", "ON_STOP_DONE"}
    BY <1>1, <2>1, <2>4 DEF LifeGoesOn, StoppedBefore, Moves
  <2> QED BY <2>2, <2>3, <2>4
<1>2. ASSUME Moves(q, r, {<<"on_start", x>>}, {})
      PROVE  \/ s = "ON_INIT_DONE" /\ LifeGoesOn(x, r, "ON_START", timed, px)
             \/ s \in {"ON_STOP", "ON_STOP_DONE"} /\ LifeGoesOn(x, r, s, timed, px)
  <2>1. Has(q, <<"on_start", x>>) /\ ~Has(r, <<"on_start", x>>)
    BY <1>2 DEF Moves, LifeGoesOn
  <2>2. s \in {"ON_INIT_DONE", "ON_STOP", "ON_STOP_DONE"}
    BY <2>1 DEF LifeGoesOn, StoppedBefore
  <2>3. CASE s = "ON_INIT_DONE"
    BY <1>2, <2>1, <2>3 DEF LifeGoesOn, StoppedBefore, Moves, Living, StartFlow
  <2>4. CASE s \in {"ON_STOP", "ON_STOP_DONE"}
    BY <1>2, <2>1, <2>4 DEF LifeGoesOn, StoppedBefore, Moves
  <2> QED BY <2>2, <2>3, <2>4
<1> QED BY <1>1, <1>2

LEMMA LifeTimersClosed ==
    ASSUME NEW x, NEW q, NEW r, NEW s, NEW timed, NEW px, LifeGoesOn(x, q, s, timed, px),
           Moves(q, r, {<<"timers_closed", x>>}, {})
    PROVE  s = "ON_STOP_DONE" /\ LifeGoesOn(x, r, "ON_DEINIT", FALSE, px)
<1>1. Has(q, <<"timers_closed", x>>) /\ ~Has(r, <<"timers_closed", x>>)
  BY DEF Moves, LifeGoesOn
<1>2. s = "ON_STOP_DONE"
  BY <1>1 DEF LifeGoesOn
<1>3. \A n \in {"on_init", "on_start"} : ~Has(q, <<n, x>>)
  <2> SUFFICES ASSUME NEW n \in {"on_init", "on_start"}, Has(q, <<n, x>>) PROVE FALSE
    OBVIOUS
  <2>1. Precedes(q, <<n, x>>, <<"timers_closed", x>>)
    BY <1>2 DEF LifeGoesOn, StoppedBefore
  <2> QED BY <2>1 DEF Moves
<1>4. \A n \in {"on_init", "on_start", "timers_closed"} : ~Has(r, <<n, x>>)
  BY <1>1, <1>3 DEF Moves
<1> QED BY <1>2, <1>4 DEF LifeGoesOn, Moves, StoppedBefore, Living, StartFlow

LEMMA LifeProxyDeleted ==
    ASSUME NEW x, NEW q, NEW r, NEW s, NEW timed, NEW px, LifeGoesOn(x, q, s, timed, px)
    PROVE  /\ Moves(q, r, {<<"proxy_deleted", x>>}, {}) => LifeGoesOn(x, r, s, timed, "gone")
           /\ s = "ON_DEINIT_DONE" /\ Moves(q, r, {<<"proxy_deleted", x>>}, {<<"del_extension", x>>}) =>
                  LifeGoesOn(x, r, s, timed, "gone")
           /\ \A ps : Moves(q, r, {<<"proxy_deleted", x>>}, ps) => px = "released" /\ s \in Living
<1>1. \A ps : Moves(q, r, {<<"proxy_deleted", x>>}, ps) =>
          px = "released" /\ s \in Living /\ ~Has(q, <<"del_extension", x>>)
  BY DEF LifeGoesOn, Moves
<1>2. ASSUME Moves(q, r, {<<"proxy_deleted", x>>}, {}) PROVE LifeGoesOn(x, r, s, timed, "gone")
  <2>1. ~Has(r, <<"proxy_deleted", x>>)
    BY <1>2 DEF LifeGoesOn, Moves
  <2> QED BY <1>1, <1>2, <2>1 DEF LifeGoesOn, Moves, StoppedBefore
<1>3. ASSUME s = "ON_DEINIT_DONE", Moves(q, r, {<<"proxy_deleted", x>>}, {<<"del_extension", x>>})
      PROVE  LifeGoesOn(x, r, s, timed, "gone")
  <2>1. ~Has(r, <<"proxy_deleted", x>>)
    BY <1>3 DEF LifeGoesOn, Moves
  <2> QED BY <1>1, <1>3, <2>1 DEF LifeGoesOn, Moves, StoppedBefore
<1> QED BY <1>1, <1>2, <1>3

LEMMA LifeProxy ==
    ASSUME NEW x, NEW q, NEW r, NEW s, NEW timed, NEW px, LifeGoesOn(x, q, s, timed, px)
    PROVE  /\ /\ px = "never" /\ s \in Living \ {"ON_DEINIT_DONE"} /\ Moves(q, r, {}, {})
              => LifeGoesOn(x, r, s, timed, "held")
           /\ px = "held" /\ Moves(q, r, {}, {<<"proxy_deleted", x>>}) => LifeGoesOn(x, r, s, timed, "released")
<1>1. ASSUME px = "never", s \in Living \ {"ON_DEINIT_DONE"}, Moves(q, r, {}, {})
      PROVE  LifeGoesOn(x, r, s, timed, "held")
  BY <1>1 DEF LifeGoesOn, Moves, StoppedBefore
<1>2. ASSUME px = "held", Moves(q, r, {}, {<<"proxy_deleted", x>>})
      PROVE  LifeGoesOn(x, r, s, timed, "released")
  BY <1>2 DEF LifeGoesOn, Moves, StoppedBefore
<1> QED BY <1>1, <1>2

LEMMA LifeOf ==
    ASSUME NEW place, Placed(place), NEW g \in Group, NEW x \in ExtOf(g)
    PROVE  /\ LifeGoesOn(x, t_queue[g], ext_state[x], x \in path_timers, proxy[x])
           /\ ext_state[x] \in CloseFlow => Told(g)
           /\ x \in Extension /\ x[1] = g
BY ExtGroup DEF Placed, At, ExtensionAt, ExtensionIs

LEMMA LifeKinds ==
    ASSUME NEW g \in Group, NEW x \in ExtOf(g)
    PROVE  /\ \A n \in {"on_init", "on_start", "timers_closed", "proxy_deleted", "del_extension"} :
                 /\ <<n, x>> \in ThreadTasks(g)
                 /\ {<<n, x>>} \in SUBSET LifeTasks(x)
           /\ {} \in SUBSET LifeTasks(x)
BY ThreadKinds DEF LifeTasks

Advances == QueuesTyped' /\ \E next \in [Group -> Places] : Placed(next)'

LEMMA OnConfigureDoneStep ==
    ASSUME Typed, NEW place \in [Group -> Places], Placed(place), NEW x \in Extension,
           OnConfigureDone(x)
    PROVE  Advances
<1> DEFINE g == x[1]
<1>1. g \in Group /\ x \in ExtOf(g)
  BY ExtGroup
<1>2. LifeGoesOn(x, t_queue[g], ext_state[x], x \in path_timers, proxy[x])
  BY <1>1, LifeOf
<1>3. QueuesTyped
  BY DEF Typed
<1>4. /\ ext_state[x] = "ON_CONFIGURE"
      /\ UNCHANGED <<engine_side, e_queue, runloop, t_state, is_close_triggered,
                     err_before_ready, proxy, addon>>
  BY DEF OnConfigureDone, Proceed, Calls
<1>5. CASE Told(g)
  <2>1. ThreadMoves(g, {}, {}) /\ path_timers' = path_timers /\ ext_state' = Enter(x, "ON_STOP")
    BY <1>1, <1>3, <1>5, ThreadPosts DEF OnConfigureDone, Proceed, Calls, Told
  <2>2. LifeGoesOn(x, t_queue'[g], "ON_STOP", x \in path_timers, proxy[x])
    BY <1>2, <1>4, <2>1, LifeOnConfigureDone DEF ThreadMoves
  <2>3. ext_state'[x] = "ON_STOP" /\ \A y \in Extension : y # x => ext_state'[y] = ext_state[y]
    BY <2>1 DEF Enter, Typed, ExtsTyped
  <2>4. {} \in SUBSET LifeTasks(x)
    BY <1>1, LifeKinds
  <2> QED BY <1>1, <1>4, <1>5, <2>1, <2>2, <2>3, <2>4, LifeStep DEF Advances, Living, StartFlow
<1>6. CASE ~Told(g)
  <2>1. /\ ThreadMoves(g, {}, {<<"on_init", x>>}) /\ path_timers' = path_timers \union {x}
        /\ ext_state' = Enter(x, "ON_CONFIGURE_DONE")
    <3>1. <<"on_init", x>> \in ThreadTasks(g)
      BY <1>1, LifeKinds
    <3> QED BY <1>1, <1>3, <1>6, <3>1, ThreadPosts DEF OnConfigureDone, Proceed, Calls, Told
  <2>2. LifeGoesOn(x, t_queue'[g], "ON_CONFIGURE_DONE", TRUE, proxy[x])
    BY <1>2, <1>4, <2>1, LifeOnConfigureDone DEF ThreadMoves
  <2>3. ext_state'[x] = "ON_CONFIGURE_DONE" /\ \A y \in Extension : y # x => ext_state'[y] = ext_state[y]
    BY <2>1 DEF Enter, Typed, ExtsTyped
  <2>4. LifeGoesOn(x, t_queue'[g], ext_state'[x], x \in path_timers', proxy'[x])
    BY <1>4, <2>1, <2>2, <2>3 DEF LifeGoesOn, StoppedBefore
  <2>5. ext_state'[x] \notin CloseFlow /\ ext_state'[x] \in Living /\ ext_state[x] \in Living
    BY <1>4, <2>3 DEF CloseFlow, Living, StartFlow
  <2>6. {} \in SUBSET LifeTasks(x) /\ {<<"on_init", x>>} \in SUBSET LifeTasks(x)
    BY <1>1, LifeKinds
  <2> QED BY <1>1, <1>4, <2>1, <2>3, <2>4, <2>5, <2>6, LifeStep DEF Advances
<1> QED BY <1>5, <1>6

LEMMA Entered ==
    ASSUME Typed, NEW x \in Extension, NEW s, ext_state' = Enter(x, s)
    PROVE  ext_state'[x] = s /\ \A y \in Extension : y # x => ext_state'[y] = ext_state[y]
BY DEF Enter, Typed, ExtsTyped

LEMMA OnInitDoneStep ==
    ASSUME Typed, NEW place \in [Group -> Places], Placed(place), NEW x \in Extension, OnInitDone(x)
    PROVE  Advances
<1> DEFINE g == x[1]
<1>1. g \in Group /\ x \in ExtOf(g)
  BY ExtGroup
<1>2. LifeGoesOn(x, t_queue[g], ext_state[x], x \in path_timers, proxy[x])
  BY <1>1, LifeOf
<1>3. QueuesTyped
  BY DEF Typed
<1>4. /\ ext_state[x] = "ON_INIT"
      /\ UNCHANGED <<engine_side, e_queue, runloop, t_state, is_close_triggered,
                     err_before_ready, proxy, path_timers, addon>>
  BY DEF OnInitDone, Proceed, Calls
<1>5. CASE Told(g)
  <2>1. ThreadMoves(g, {}, {}) /\ ext_state' = Enter(x, "ON_STOP")
    BY <1>1, <1>3, <1>5, ThreadPosts DEF OnInitDone, Proceed, Calls, Told
  <2>2. LifeGoesOn(x, t_queue'[g], "ON_STOP", x \in path_timers, proxy[x])
    BY <1>2, <1>4, <2>1, LifeOnInitDone DEF ThreadMoves
  <2>3. ext_state'[x] = "ON_STOP" /\ \A y \in Extension : y # x => ext_state'[y] = ext_state[y]
    BY <2>1, Entered
  <2>4. {} \in SUBSET LifeTasks(x)
    BY <1>1, LifeKinds
  <2> QED BY <1>1, <1>4, <1>5, <2>1, <2>2, <2>3, <2>4, LifeStep DEF Advances, Living, StartFlow
<1>6. CASE ~Told(g)
  <2>1. ThreadMoves(g, {}, {<<"on_start", x>>}) /\ ext_state' = Enter(x, "ON_INIT_DONE")
    <3>1. <<"on_start", x>> \in ThreadTasks(g)
      BY <1>1, LifeKinds
    <3> QED BY <1>1, <1>3, <1>6, <3>1, ThreadPosts DEF OnInitDone, Proceed, Calls, Told
  <2>2. LifeGoesOn(x, t_queue'[g], "ON_INIT_DONE", x \in path_timers, proxy[x])
    BY <1>2, <1>4, <2>1, LifeOnInitDone DEF ThreadMoves
  <2>3. ext_state'[x] = "ON_INIT_DONE" /\ \A y \in Extension : y # x => ext_state'[y] = ext_state[y]
    BY <2>1, Entered
  <2>4. ext_state'[x] \notin CloseFlow /\ ext_state'[x] \in Living /\ ext_state[x] \in Living
    BY <1>4, <2>3 DEF CloseFlow, Living, StartFlow
  <2>5. {} \in SUBSET LifeTasks(x) /\ {<<"on_start", x>>} \in SUBSET LifeTasks(x)
    BY <1>1, LifeKinds
  <2> QED BY <1>1, <1>4, <2>1, <2>2, <2>3, <2>4, <2>5, LifeStep DEF Advances
<1> QED BY <1>5, <1>6

LEMMA OnStartDoneStep ==
    ASSUME Typed, NEW place \in [Group -> Places], Placed(place), NEW x \in Extension, OnStartDone(x)
    PROVE  Advances
<1> DEFINE g == x[1]
<1>1. g \in Group /\ x \in ExtOf(g)
  BY ExtGroup
<1>2. LifeGoesOn(x, t_queue[g], ext_state[x], x \in path_timers, proxy[x])
  BY <1>1, LifeOf
<1>3. QueuesTyped
  BY DEF Typed
<1>4. /\ ext_state[x] = "ON_START"
      /\ UNCHANGED <<engine_side, e_queue, runloop, t_state, is_close_triggered,
                     err_before_ready, proxy, path_timers, addon>>
  BY DEF OnStartDone, Proceed, Calls
<1>5. ThreadMoves(g, {}, {})
  BY <1>1, <1>3, ThreadPosts DEF OnStartDone, Proceed, Calls
<1>6. /\ LifeGoesOn(x, t_queue'[g], "ON_STOP", x \in path_timers, proxy[x])
      /\ LifeGoesOn(x, t_queue'[g], "ON_START_DONE", x \in path_timers, proxy[x])
  BY <1>2, <1>4, <1>5, LifeOnStartDone DEF ThreadMoves
<1>7. \/ Told(g) /\ ext_state' = Enter(x, "ON_STOP")
      \/ ext_state' = Enter(x, "ON_START_DONE")
  BY DEF OnStartDone, Proceed, Told
<1>8. /\ \A y \in Extension : y # x => ext_state'[y] = ext_state[y]
      /\ (ext_state'[x] = "ON_STOP" /\ Told(g)) \/ ext_state'[x] = "ON_START_DONE"
  BY <1>7, Entered
<1>9. ext_state'[x] \in Living /\ ext_state[x] \in Living /\ (ext_state'[x] \in CloseFlow => Told(g))
  BY <1>4, <1>8 DEF CloseFlow, Living, StartFlow
<1>10. LifeGoesOn(x, t_queue'[g], ext_state'[x], x \in path_timers, proxy[x])
  BY <1>6, <1>8
<1>11. {} \in SUBSET LifeTasks(x)
  BY <1>1, LifeKinds
<1> QED BY <1>1, <1>4, <1>5, <1>8, <1>9, <1>10, <1>11, LifeStep DEF Advances

LEMMA OnStopDoneStep ==
    ASSUME Typed, NEW place \in [Group -> Places], Placed(place), NEW x \in Extension, OnStopDone(x)
    PROVE  Advances
<1> DEFINE g == x[1]
<1>1. g \in Group /\ x \in ExtOf(g)
  BY ExtGroup
<1>2. /\ LifeGoesOn(x, t_queue[g], ext_state[x], x \in path_timers, proxy[x])
      /\ ext_state[x] \in CloseFlow => Told(g)
  BY <1>1, LifeOf
<1>3. QueuesTyped
  BY DEF Typed
<1>4. /\ ext_state[x] = "ON_STOP"
      /\ UNCHANGED <<engine_side, e_queue, runloop, t_state, is_close_triggered,
                     err_before_ready, proxy, path_timers, addon>>
  BY DEF OnStopDone, Calls
<1>5. Told(g) /\ ext_state[x] \in Living
  BY <1>2, <1>4 DEF CloseFlow, Living
<1>6. CASE x \in path_timers
  <2>1. ThreadMoves(g, {}, {<<"timers_closed", x>>}) /\ ext_state' = Enter(x, "ON_STOP_DONE")
    <3>1. <<"timers_closed", x>> \in ThreadTasks(g)
      BY <1>1, LifeKinds
    <3> QED BY <1>1, <1>3, <1>6, <3>1, ThreadPosts DEF OnStopDone, Calls
  <2>2. LifeGoesOn(x, t_queue'[g], "ON_STOP_DONE", x \in path_timers, proxy[x])
    BY <1>2, <1>4, <2>1, LifeOnStopDone DEF ThreadMoves
  <2>3. ext_state'[x] = "ON_STOP_DONE" /\ \A y \in Extension : y # x => ext_state'[y] = ext_state[y]
    BY <2>1, Entered
  <2>4. ext_state'[x] \in Living
    BY <2>3 DEF Living
  <2>5. {} \in SUBSET LifeTasks(x) /\ {<<"timers_closed", x>>} \in SUBSET LifeTasks(x)
    BY <1>1, LifeKinds
  <2> QED BY <1>1, <1>4, <1>5, <2>1, <2>2, <2>3, <2>4, <2>5, LifeStep DEF Advances
<1>7. CASE x \notin path_timers
  <2>1. ThreadMoves(g, {}, {}) /\ ext_state' = Enter(x, "ON_DEINIT")
    BY <1>1, <1>3, <1>7, ThreadPosts DEF OnStopDone, Calls
  <2>2. LifeGoesOn(x, t_queue'[g], "ON_DEINIT", x \in path_timers, proxy[x])
    BY <1>2, <1>4, <1>7, <2>1, LifeOnStopDone DEF ThreadMoves
  <2>3. ext_state'[x] = "ON_DEINIT" /\ \A y \in Extension : y # x => ext_state'[y] = ext_state[y]
    BY <2>1, Entered
  <2>4. ext_state'[x] \in Living
    BY <2>3 DEF Living
  <2>5. {} \in SUBSET LifeTasks(x)
    BY <1>1, LifeKinds
  <2> QED BY <1>1, <1>4, <1>5, <2>1, <2>2, <2>3, <2>4, <2>5, LifeStep DEF Advances
<1> QED BY <1>6, <1>7

LEMMA OnDeinitDoneStep ==
    ASSUME Typed, NEW place \in [Group -> Places], Placed(place), NEW x \in Extension, OnDeinitDone(x)
    PROVE  Advances
<1> DEFINE g == x[1]
<1>1. g \in Group /\ x \in ExtOf(g)
  BY ExtGroup
<1>2. /\ LifeGoesOn(x, t_queue[g], ext_state[x], x \in path_timers, proxy[x])
      /\ ext_state[x] \in CloseFlow => Told(g)
  BY <1>1, LifeOf
<1>3. QueuesTyped
  BY DEF Typed
<1>4. /\ ext_state[x] = "ON_DEINIT" /\ ext_state' = Enter(x, "ON_DEINIT_DONE")
      /\ UNCHANGED <<engine_side, e_queue, runloop, t_state, is_close_triggered,
                     err_before_ready, proxy, path_timers, addon>>
  BY DEF OnDeinitDone, Calls
<1>5. Told(g) /\ ext_state[x] \in Living
  BY <1>2, <1>4 DEF CloseFlow, Living
<1>6. /\ ext_state'[x] = "ON_DEINIT_DONE" /\ \A y \in Extension : y # x => ext_state'[y] = ext_state[y]
      /\ ext_state'[x] \in Living
  BY <1>4, Entered DEF Living
<1>7. CASE proxy[x] \in {"held", "released"}
  <2>1. ThreadMoves(g, {}, {})
    BY <1>1, <1>3, <1>7, ThreadPosts DEF OnDeinitDone, Calls
  <2>2. LifeGoesOn(x, t_queue'[g], "ON_DEINIT_DONE", x \in path_timers, proxy[x])
    BY <1>2, <1>4, <2>1, LifeOnDeinitDone DEF ThreadMoves
  <2>3. {} \in SUBSET LifeTasks(x)
    BY <1>1, LifeKinds
  <2> QED BY <1>1, <1>4, <1>5, <1>6, <2>1, <2>2, <2>3, LifeStep DEF Advances
<1>8. CASE proxy[x] \notin {"held", "released"}
  <2>1. ThreadMoves(g, {}, {<<"del_extension", x>>})
    <3>1. <<"del_extension", x>> \in ThreadTasks(g)
      BY <1>1, LifeKinds
    <3> QED BY <1>1, <1>3, <1>8, <3>1, ThreadPosts DEF OnDeinitDone, Calls
  <2>2. proxy[x] \in {"never", "gone"}
    BY <1>8 DEF Typed, ExtsTyped
  <2>3. LifeGoesOn(x, t_queue'[g], "ON_DEINIT_DONE", x \in path_timers, proxy[x])
    BY <1>2, <1>4, <2>1, <2>2, LifeOnDeinitDone DEF ThreadMoves
  <2>4. {} \in SUBSET LifeTasks(x) /\ {<<"del_extension", x>>} \in SUBSET LifeTasks(x)
    BY <1>1, LifeKinds
  <2> QED BY <1>1, <1>4, <1>5, <1>6, <2>1, <2>3, <2>4, LifeStep DEF Advances
<1> QED BY <1>7, <1>8

LEMMA CallbackStep ==
    ASSUME Typed, NEW place \in [Group -> Places], Placed(place), NEW g \in Group, NEW x \in ExtOf(g),
           OnInit(g, x) \/ OnStart(g, x)
    PROVE  Advances
<1>1. /\ LifeGoesOn(x, t_queue[g], ext_state[x], x \in path_timers, proxy[x])
      /\ ext_state[x] \in CloseFlow => Told(g)
      /\ x \in Extension
  BY LifeOf
<1>2. QueuesTyped
  BY DEF Typed
<1>3. UNCHANGED <<engine_side, e_queue, runloop, t_state, is_close_triggered,
                  err_before_ready, proxy, path_timers, addon>>
  BY DEF OnInit, OnStart, Callback
<1>4. ASSUME NEW n \in {"on_init", "on_start"}, NEW s \in Living \ CloseFlow, NEW s0 \in Living \ CloseFlow,
             Callback(g, x, n, s),
             \/ ext_state[x] = s0 /\ LifeGoesOn(x, t_queue'[g], s, x \in path_timers, proxy[x])
             \/ /\ ext_state[x] \in {"ON_STOP", "ON_STOP_DONE"}
                /\ LifeGoesOn(x, t_queue'[g], ext_state[x], x \in path_timers, proxy[x])
      PROVE  Advances
  <2>1. ThreadMoves(g, {<<n, x>>}, {})
    BY <1>2, <1>4, ThreadTakes DEF Callback
  <2>2. /\ ext_state[x] \in CloseFlow => ext_state' = ext_state
        /\ ext_state[x] \notin CloseFlow => ext_state' = Enter(x, s)
    BY <1>4 DEF Callback
  <2>3. \A y \in Extension : y # x => ext_state'[y] = ext_state[y]
    BY <1>1, <2>2, Entered
  <2>4. /\ ext_state'[x] \in Living /\ ext_state[x] \in Living
        /\ ext_state'[x] \in CloseFlow => Told(g)
        /\ LifeGoesOn(x, t_queue'[g], ext_state'[x], x \in path_timers, proxy[x])
    <3>1. CASE ext_state[x] = s0 /\ LifeGoesOn(x, t_queue'[g], s, x \in path_timers, proxy[x])
      BY <1>1, <2>2, <3>1, Entered
    <3>2. CASE /\ ext_state[x] \in {"ON_STOP", "ON_STOP_DONE"}
               /\ LifeGoesOn(x, t_queue'[g], ext_state[x], x \in path_timers, proxy[x])
      <4>1. ext_state[x] \in CloseFlow /\ ext_state[x] \in Living
        BY <3>2 DEF CloseFlow, Living
      <4> QED BY <1>1, <2>2, <3>2, <4>1
    <3> QED BY <1>4, <3>1, <3>2
  <2>5. {} \in SUBSET LifeTasks(x) /\ {<<n, x>>} \in SUBSET LifeTasks(x)
    BY LifeKinds
  <2> QED BY <1>3, <2>1, <2>3, <2>4, <2>5, LifeStep DEF Advances
<1>5. CASE OnInit(g, x)
  <2>1. Callback(g, x, "on_init", "ON_INIT")
    BY <1>5 DEF OnInit
  <2>2. ThreadMoves(g, {<<"on_init", x>>}, {})
    BY <1>2, <2>1, ThreadTakes DEF Callback
  <2>3. Moves(t_queue[g], t_queue'[g], {<<"on_init", x>>}, {})
    BY <2>2 DEF ThreadMoves
  <2>4. \/ /\ ext_state[x] = "ON_CONFIGURE_DONE"
           /\ LifeGoesOn(x, t_queue'[g], "ON_INIT", x \in path_timers, proxy[x])
        \/ /\ ext_state[x] \in {"ON_STOP", "ON_STOP_DONE"}
           /\ LifeGoesOn(x, t_queue'[g], ext_state[x], x \in path_timers, proxy[x])
    BY <1>1, <2>3, LifeCallback
  <2>5. {"ON_INIT", "ON_CONFIGURE_DONE"} \subseteq Living \ CloseFlow
    BY DEF Living, StartFlow, CloseFlow
  <2> QED BY <1>4, <2>1, <2>4, <2>5
<1>6. CASE OnStart(g, x)
  <2>1. Callback(g, x, "on_start", "ON_START")
    BY <1>6 DEF OnStart
  <2>2. ThreadMoves(g, {<<"on_start", x>>}, {})
    BY <1>2, <2>1, ThreadTakes DEF Callback
  <2>3. Moves(t_queue[g], t_queue'[g], {<<"on_start", x>>}, {})
    BY <2>2 DEF ThreadMoves
  <2>4. \/ /\ ext_state[x] = "ON_INIT_DONE"
           /\ LifeGoesOn(x, t_queue'[g], "ON_START", x \in path_timers, proxy[x])
        \/ /\ ext_state[x] \in {"ON_STOP", "ON_STOP_DONE"}
           /\ LifeGoesOn(x, t_queue'[g], ext_state[x], x \in path_timers, proxy[x])
    BY <1>1, <2>3, LifeCallback
  <2>5. {"ON_START", "ON_INIT_DONE"} \subseteq Living \ CloseFlow
    BY DEF Living, StartFlow, CloseFlow
  <2> QED BY <1>4, <2>1, <2>4, <2>5
<1> QED BY <1>5, <1>6

LEMMA TimersClosedStep ==
    ASSUME Typed, NEW place \in [Group -> Places], Placed(place), NEW g \in Group, NEW x \in ExtOf(g),
           TimersClosed(g, x)
    PROVE  Advances
<1>1. /\ LifeGoesOn(x, t_queue[g], ext_state[x], x \in path_timers, proxy[x])
      /\ ext_state[x] \in CloseFlow => Told(g)
      /\ x \in Extension
  BY LifeOf
<1>2. QueuesTyped
  BY DEF Typed
<1>3. /\ UNCHANGED <<engine_side, e_queue, runloop, t_state, is_close_triggered,
                     err_before_ready, proxy, addon>>
      /\ ext_state' = Enter(x, "ON_DEINIT") /\ path_timers' = path_timers \ {x}
  BY DEF TimersClosed
<1>4. ThreadMoves(g, {<<"timers_closed", x>>}, {})
  BY <1>2, ThreadTakes DEF TimersClosed
<1>5. /\ ext_state[x] = "ON_STOP_DONE"
      /\ LifeGoesOn(x, t_queue'[g], "ON_DEINIT", FALSE, proxy[x])
  BY <1>1, <1>4, LifeTimersClosed DEF ThreadMoves
<1>6. ext_state'[x] = "ON_DEINIT" /\ \A y \in Extension : y # x => ext_state'[y] = ext_state[y]
  BY <1>1, <1>3, Entered
<1>7. Told(g) /\ ext_state[x] \in Living /\ ext_state'[x] \in Living
  BY <1>1, <1>5, <1>6 DEF Living, CloseFlow
<1>8. LifeGoesOn(x, t_queue'[g], ext_state'[x], x \in path_timers', proxy'[x])
  BY <1>3, <1>5, <1>6 DEF LifeGoesOn, StoppedBefore
<1>9. {} \in SUBSET LifeTasks(x) /\ {<<"timers_closed", x>>} \in SUBSET LifeTasks(x)
  BY LifeKinds
<1> QED BY <1>3, <1>4, <1>6, <1>7, <1>8, <1>9, LifeStep DEF Advances

LEMMA ProxyDeletedStep ==
    ASSUME Typed, NEW place \in [Group -> Places], Placed(place), NEW g \in Group, NEW x \in ExtOf(g),
           ProxyDeleted(g, x)
    PROVE  Advances
<1>1. /\ LifeGoesOn(x, t_queue[g], ext_state[x], x \in path_timers, proxy[x])
      /\ ext_state[x] \in CloseFlow => Told(g)
      /\ x \in Extension
  BY LifeOf
<1>2. QueuesTyped
  BY DEF Typed
<1>3. /\ UNCHANGED <<engine_side, e_queue, runloop, t_state, is_close_triggered,
                     err_before_ready, ext_state, path_timers, addon>>
      /\ proxy' = [proxy EXCEPT ![x] = "gone"]
  BY DEF ProxyDeleted
<1>4. proxy'[x] = "gone" /\ \A y \in Extension : y # x => proxy'[y] = proxy[y]
  BY <1>1, <1>3 DEF Typed, ExtsTyped
<1>5. /\ {} \in SUBSET LifeTasks(x) /\ {<<"proxy_deleted", x>>} \in SUBSET LifeTasks(x)
      /\ {<<"del_extension", x>>} \in SUBSET LifeTasks(x)
      /\ <<"del_extension", x>> \in ThreadTasks(g)
  BY LifeKinds
<1>6. CASE ext_state[x] = "ON_DEINIT_DONE"
  <2>1. ThreadMoves(g, {<<"proxy_deleted", x>>}, {<<"del_extension", x>>})
    BY <1>2, <1>5, <1>6, ThreadTakes DEF ProxyDeleted
  <2>2. LifeGoesOn(x, t_queue'[g], ext_state[x], x \in path_timers, "gone") /\ ext_state[x] \in Living
    BY <1>1, <1>6, <2>1, LifeProxyDeleted DEF ThreadMoves
  <2> QED BY <1>1, <1>3, <1>4, <1>5, <2>1, <2>2, LifeStep DEF Advances
<1>7. CASE ext_state[x] # "ON_DEINIT_DONE"
  <2>1. ThreadMoves(g, {<<"proxy_deleted", x>>}, {})
    BY <1>2, <1>7, ThreadTakes DEF ProxyDeleted
  <2>2. LifeGoesOn(x, t_queue'[g], ext_state[x], x \in path_timers, "gone") /\ ext_state[x] \in Living
    BY <1>1, <2>1, LifeProxyDeleted DEF ThreadMoves
  <2> QED BY <1>1, <1>3, <1>4, <1>5, <2>1, <2>2, LifeStep DEF Advances
<1> QED BY <1>6, <1>7

LEMMA ProxyStep ==
    ASSUME Typed, NEW place \in [Group -> Places], Placed(place), NEW x \in Extension,
           CreateProxy(x) \/ ReleaseProxy(x)
    PROVE  Advances
<1> DEFINE g == x[1]
<1>1. g \in Group /\ x \in ExtOf(g)
  BY ExtGroup
<1>2. /\ LifeGoesOn(x, t_queue[g], ext_state[x], x \in path_timers, proxy[x])
      /\ ext_state[x] \in CloseFlow => Told(g)
  BY <1>1, LifeOf
<1>3. QueuesTyped
  BY DEF Typed
<1>4. UNCHANGED <<engine_side, e_queue, runloop, t_state, is_close_triggered,
                  err_before_ready, ext_state, path_timers, addon>>
  BY DEF CreateProxy, ReleaseProxy
<1>5. /\ {} \in SUBSET LifeTasks(x) /\ {<<"proxy_deleted", x>>} \in SUBSET LifeTasks(x)
      /\ <<"proxy_deleted", x>> \in ThreadTasks(g)
  BY <1>1, LifeKinds
<1>6. CASE CreateProxy(x)
  <2>1. ThreadMoves(g, {}, {})
    BY <1>1, <1>3, <1>6, ThreadPosts DEF CreateProxy
  <2>2. /\ proxy[x] = "never" /\ ext_state[x] \in Living \ {"ON_DEINIT_DONE"}
        /\ proxy'[x] = "held" /\ \A y \in Extension : y # x => proxy'[y] = proxy[y]
    BY <1>6 DEF CreateProxy, Typed, ExtsTyped, Living, StartFlow
  <2>3. LifeGoesOn(x, t_queue'[g], ext_state[x], x \in path_timers, "held")
    BY <1>2, <2>1, <2>2, LifeProxy DEF ThreadMoves
  <2> QED BY <1>1, <1>2, <1>4, <1>5, <2>1, <2>2, <2>3, LifeStep DEF Advances
<1>7. CASE ReleaseProxy(x)
  <2>1. ThreadMoves(g, {}, {<<"proxy_deleted", x>>})
    BY <1>1, <1>3, <1>5, <1>7, ThreadPosts DEF ReleaseProxy
  <2>2. /\ proxy[x] = "held"
        /\ proxy'[x] = "released" /\ \A y \in Extension : y # x => proxy'[y] = proxy[y]
    BY <1>7 DEF ReleaseProxy, Typed, ExtsTyped
  <2>3. LifeGoesOn(x, t_queue'[g], ext_state[x], x \in path_timers, "released")
    BY <1>2, <2>1, <2>2, LifeProxy DEF ThreadMoves
  <2>4. ext_state[x] \in Living
    BY <1>2, <2>2 DEF LifeGoesOn
  <2> QED BY <1>1, <1>2, <1>4, <1>5, <2>1, <2>2, <2>3, <2>4, LifeStep DEF Advances
<1> QED BY <1>6, <1>7

-----------------------------------------------------------------------------
(* The steps of one group's thread, or of the engine for one group.        *)

EngineTasksOf(g) == {<<n, g>> : n \in EngineNames}

RequestsOf(g) ==
    {<<n, g>> : n \in {"create_group", "destroy_group"}}
    \union {<<n, x>> : n \in {"create_ext", "destroy_ext"}, x \in ExtOf(g)}

\* The step changes nothing of the other groups, and asks for nothing on their behalf.
Touches(g) ==
    /\ \A h \in Group : h # g =>
          /\ runloop'[h] = runloop[h] /\ t_state'[h] = t_state[h]
          /\ h \in threads' <=> h \in threads
          /\ h \in is_close_triggered' <=> h \in is_close_triggered
    /\ \A x \in Extension : x[1] # g =>
          /\ ext_state'[x] = ext_state[x] /\ proxy'[x] = proxy[x]
          /\ x \in path_timers' <=> x \in path_timers
    /\ \A r \in addon' : r \in addon \/ r \in RequestsOf(g)

LEMMA TouchesOne ==
    ASSUME NEW g \in Group, Touches(g), NEW et,
           NEW ep \in SUBSET (EngineTasksOf(g) \union {<<"close", 0>>}), EngineMoves(et, ep),
           NEW tt, NEW tp, ThreadMoves(g, tt, tp),
           NEW h \in Group, h # g
    PROVE  Spares(h)
<1>1. \A n \in EngineNames : <<n, h>> \notin ep
  BY DEF EngineTasksOf, EngineNames
<1>2. \A n \in EngineNames : /\ Has(e_queue', <<n, h>>) => Has(e_queue, <<n, h>>)
                             /\ Once(e_queue, <<n, h>>) => Once(e_queue', <<n, h>>)
  BY <1>1 DEF EngineMoves, Moves
<1>3. \A n \in {"create_group", "destroy_group"} : <<n, h>> \notin RequestsOf(g)
  BY DEF RequestsOf
<1>4. \A x \in ExtOf(h) : x \in Extension /\ x[1] # g
  BY ExtGroup
<1>5. \A x \in ExtOf(g) : x[1] = g
  BY ExtGroup
<1>6. \A x \in ExtOf(h) : \A n \in {"create_ext", "destroy_ext"} : <<n, x>> \notin RequestsOf(g)
  BY <1>4, <1>5 DEF RequestsOf
<1>7. \A n \in {"create_group", "destroy_group"} : <<n, h>> \in addon' => <<n, h>> \in addon
  BY <1>3 DEF Touches
<1>8. \A x \in ExtOf(h) :
          /\ ext_state'[x] = ext_state[x] /\ proxy'[x] = proxy[x]
          /\ x \in path_timers' <=> x \in path_timers
          /\ \A n \in {"create_ext", "destroy_ext"} : <<n, x>> \in addon' => <<n, x>> \in addon
  BY <1>4, <1>6 DEF Touches
<1> QED BY <1>2, <1>7, <1>8 DEF Spares, Touches, ThreadMoves

\* A step of the group g from its place to b, the rest of the engine as it is.
LEMMA GroupStep ==
    ASSUME Typed, NEW place \in [Group -> Places], Placed(place), NEW g \in Group, Touches(g),
           NEW et, NEW ep \in SUBSET EngineTasksOf(g), EngineMoves(et, ep),
           NEW tt, NEW tp, ThreadMoves(g, tt, tp), <<"trigger_close", g>> \notin tp,
           NEW a \in 5..19, place[g] = a, NEW b \in 5..19, a <= b, a >= 9 \/ b <= 8 \/ is_closing,
           UNCHANGED <<engine, extension_context, is_closing, cnt, start_graph>>,
           is_closing \/ (Told(g)' => Told(g)),
           err_before_ready' = err_before_ready \/ a <= 8,
           At(g, b)'
    PROVE  Advances
<1>1. QueuesTyped'
  BY MovesTyped DEF Typed
<1>2. \A h \in Group : h # g => Spares(h)
  <2>1. ep \in SUBSET (EngineTasksOf(g) \union {<<"close", 0>>})
    OBVIOUS
  <2> QED BY <2>1, TouchesOne
<1>3. b \in Places
  BY DEF Places
<1>4. <<"start_graph", 0>> \notin ep /\ <<"close", 0>> \notin ep
  BY DEF EngineTasksOf, EngineNames
<1>5. is_closing \/ (g \notin is_close_triggered' /\ ~Has(t_queue'[g], <<"trigger_close", g>>))
  <2>1. Has(t_queue'[g], <<"trigger_close", g>>) => Has(t_queue[g], <<"trigger_close", g>>)
    BY DEF ThreadMoves, Moves
  <2> QED BY <2>1 DEF Placed, EngineAt, ToldByEngine, Told
<1>6. /\ place[g] \in 5..19 /\ place[g] <= b /\ (place[g] >= 9 \/ b <= 8 \/ is_closing)
      /\ err_before_ready' = err_before_ready \/ place[g] <= 8
  OBVIOUS
<1>7. EngineAt([place EXCEPT ![g] = b])'
  BY <1>2, <1>3, <1>4, <1>5, <1>6, EngineKeeps
<1>8. \E next \in [Group -> Places] : Placed(next)'
  BY <1>2, <1>3, <1>7, GroupMoves
<1> QED BY <1>1, <1>8 DEF Advances

GroupNames == {"start", "group_init_done", "trigger_close", "start_life_cycle", "stop_life_cycle",
               "all_extensions_deleted", "group_deinit_done", "removed_from_engine",
               "group_destroyed"}

GroupTasks(g) == {<<n, g>> : n \in GroupNames}

\* What At says of the group itself.
GroupIs(g, p) ==
    /\ EngineHas(g, p, e_queue)
    /\ AddonHas(g, p, addon)
    /\ ThreadHas(g, p, t_queue[g], Told(g))
    /\ ThreadOnce(g, t_queue[g])
    /\ ThreadIs(p, runloop[g], t_state[g], g \in threads, Told(g))
    /\ \A x \in ExtOf(g) : ExtensionIs(p, ext_state[x], t_state[g], Told(g))

LEMMA GroupOf == ASSUME NEW place, Placed(place), NEW g \in Group PROVE GroupIs(g, place[g])
BY ExtGroup DEF Placed, At, ExtensionAt, GroupIs

\* A step within the time in which the thread runs.
Passes(a, b) == a \in 5..19 /\ b \in 5..19 /\ a <= b /\ (a >= 9 \/ b <= 8 \/ is_closing)

\* The step is not about the extensions of any group.
Quiet(g) ==
    /\ UNCHANGED <<engine, extension_context, is_closing, cnt, start_graph, err_before_ready, life>>
    /\ is_closing \/ (Told(g)' => Told(g))
    /\ \A x \in ExtOf(g) : \A n \in {"create_ext", "destroy_ext"} : <<n, x>> \in addon' => <<n, x>> \in addon

LEMMA QuietStep ==
    ASSUME Typed, NEW place \in [Group -> Places], Placed(place), NEW g \in Group, NEW b \in 5..19,
           Passes(place[g], b), place[g] \in {7, 11} => b = place[g], Touches(g), Quiet(g),
           NEW et, NEW ep \in SUBSET EngineTasksOf(g), EngineMoves(et, ep),
           NEW tt \in SUBSET GroupTasks(g), NEW tp \in SUBSET (GroupTasks(g) \ {<<"trigger_close", g>>}),
           ThreadMoves(g, tt, tp),
           GroupIs(g, b)'
    PROVE  Advances
<1> DEFINE a == place[g]
<1>1. At(g, a)
  BY DEF Placed
<1>2. Moves(t_queue[g], t_queue'[g], tt, tp)
  BY DEF ThreadMoves
<1>4. ASSUME NEW x \in ExtOf(g) PROVE ExtensionAt(x, b)'
  <2> DEFINE q == t_queue[g]
             r == t_queue'[g]
             s == ext_state[x]
  <2>1. /\ Answers(x, a, q, s, addon)
        /\ LifeGoesOn(x, q, s, x \in path_timers, proxy[x])
        /\ Moves(q, r, tt, tp)
        /\ x[1] = g
    BY <1>1, <1>2, ExtGroup DEF At, ExtensionAt
  <2>2. \A n \in {"on_init", "on_start", "timers_closed", "proxy_deleted", "del_extension",
                  "ext_created", "ext_failed", "ext_destroyed"} : <<n, x>> \notin tt /\ <<n, x>> \notin tp
    BY DEF GroupTasks, GroupNames
  <2>3. ext_state' = ext_state /\ path_timers' = path_timers /\ proxy' = proxy
    BY DEF life, Quiet
  <2>4. a = 7 => b = 7
    OBVIOUS
  <2>5. a = 11 => b = 11
    OBVIOUS
  <2>6. ExtensionIs(b, s, t_state'[g], g \in is_close_triggered')
    BY <2>3 DEF GroupIs, Told
  <2> HIDE DEF q, r, s, a
  <2>7. LifeGoesOn(x, r, s, x \in path_timers, proxy[x])
    BY <2>1, <2>2, LifeStays
  <2>8. Answers(x, b, r, s, addon')
    <3>1. \A n \in {"ext_created", "ext_failed", "ext_destroyed"} :
              /\ Has(r, <<n, x>>) => Has(q, <<n, x>>)
              /\ Once(q, <<n, x>>) => Once(r, <<n, x>>)
      BY <2>1, <2>2 DEF Moves
    <3> QED BY <2>1, <2>4, <2>5, <3>1 DEF Answers, Quiet
  <2> QED BY <2>1, <2>3, <2>6, <2>7, <2>8 DEF ExtensionAt, Told, r, s
<1>5. At(g, b)'
  BY <1>4 DEF At, GroupIs
<1>6. is_closing \/ (Told(g)' => Told(g))
  BY DEF Quiet
<1>7. <<"trigger_close", g>> \notin tp
  OBVIOUS
<1>8. /\ UNCHANGED <<engine, extension_context, is_closing, cnt, start_graph>>
      /\ err_before_ready' = err_before_ready
  BY DEF Quiet
<1>9. place[g] \in 5..19 /\ place[g] <= b /\ (place[g] >= 9 \/ b <= 8 \/ is_closing)
  BY DEF Passes
<1> QED BY <1>5, <1>6, <1>7, <1>8, <1>9, GroupStep

LEMMA Untouched ==
    ASSUME NEW g \in Group,
           \A h \in Group : h # g => runloop'[h] = runloop[h] /\ t_state'[h] = t_state[h],
           \A h \in Group : h # g => (h \in threads' <=> h \in threads) /\ (Told(h)' <=> Told(h)),
           UNCHANGED life,
           \A r \in addon' : r \in addon \/ r \in RequestsOf(g)
    PROVE  Touches(g)
BY DEF Touches, life, Told

LEMMA GroupKinds ==
    ASSUME NEW g \in Group
    PROVE  /\ {} \in SUBSET GroupTasks(g) /\ {} \in SUBSET (GroupTasks(g) \ {<<"trigger_close", g>>})
           /\ {} \in SUBSET EngineTasksOf(g)
           /\ \A n \in GroupNames : /\ {<<n, g>>} \in SUBSET GroupTasks(g)
                                    /\ <<n, g>> \in ThreadTasks(g)
           /\ \A n \in GroupNames \ {"trigger_close"} :
                 {<<n, g>>} \in SUBSET (GroupTasks(g) \ {<<"trigger_close", g>>})
<1>1. ASSUME NEW n \in GroupNames PROVE <<n, g>> \in ThreadTasks(g)
  BY ThreadKinds DEF GroupNames
<1>2. ASSUME NEW n \in GroupNames PROVE {<<n, g>>} \in SUBSET GroupTasks(g)
  BY DEF GroupTasks
<1>3. ASSUME NEW n \in GroupNames \ {"trigger_close"}
      PROVE  {<<n, g>>} \in SUBSET (GroupTasks(g) \ {<<"trigger_close", g>>})
  BY DEF GroupTasks
<1> QED BY <1>1, <1>2, <1>3

LEMMA AllExtensionsDeletedStep ==
    ASSUME Typed, NEW place \in [Group -> Places], Placed(place), NEW g \in Group,
           AllExtensionsDeleted(g)
    PROVE  Advances
<1>1. QueuesTyped
  BY DEF Typed
<1>2. /\ UNCHANGED <<e_queue, runloop, t_state, is_close_triggered, err_before_ready, life, addon>>
      /\ UNCHANGED <<engine, extension_context, is_closing, cnt, start_graph, threads>>
  BY DEF AllExtensionsDeleted, engine_side, context
<1>3. /\ <<"group_deinit_done", g>> \in ThreadTasks(g)
      /\ {<<"all_extensions_deleted", g>>} \in SUBSET GroupTasks(g)
      /\ {<<"group_deinit_done", g>>} \in SUBSET (GroupTasks(g) \ {<<"trigger_close", g>>})
      /\ {} \in SUBSET EngineTasksOf(g)
  BY GroupKinds DEF GroupNames
<1>4. ThreadMoves(g, {<<"all_extensions_deleted", g>>}, {<<"group_deinit_done", g>>})
  BY <1>1, <1>3, ThreadTakes DEF AllExtensionsDeleted
<1>5. EngineMoves({}, {})
  BY <1>1, <1>2, EnginePosts
<1>6. Moves(t_queue[g], t_queue'[g], {<<"all_extensions_deleted", g>>}, {<<"group_deinit_done", g>>})
  BY <1>4 DEF ThreadMoves
<1>7. GroupIs(g, place[g]) /\ place[g] = 12
  BY <1>6, GroupOf DEF GroupIs, ThreadHas, Moves
<1>8. GroupIs(g, 13)'
  <2>1. ThreadHas(g, 13, t_queue'[g], Told(g))
    BY <1>6, <1>7 DEF GroupIs, ThreadHas, ThreadOnce, Moves
  <2>2. ThreadOnce(g, t_queue'[g])
    BY <1>6, <1>7 DEF GroupIs, ThreadHas, ThreadOnce, Moves
  <2>3. /\ EngineHas(g, 13, e_queue) /\ AddonHas(g, 13, addon)
        /\ ThreadIs(13, runloop[g], t_state[g], g \in threads, Told(g))
        /\ \A x \in ExtOf(g) : ExtensionIs(13, ext_state[x], t_state[g], Told(g))
    BY <1>7 DEF GroupIs, EngineHas, AddonHas, ThreadIs, ExtensionIs
  <2> QED BY <1>2, <2>1, <2>2, <2>3 DEF GroupIs, Told, life
<1>9. Touches(g) /\ Quiet(g)
  BY <1>2, Untouched DEF Quiet, Told
<1>10. Passes(place[g], 13) /\ 13 \in 5..19 /\ (place[g] \in {7, 11} => 13 = place[g])
  BY <1>7 DEF Passes
<1> QED BY <1>3, <1>4, <1>5, <1>8, <1>9, <1>10, QuietStep

LEMMA GroupDeinitDoneStep ==
    ASSUME Typed, NEW place \in [Group -> Places], Placed(place), NEW g \in Group, GroupDeinitDone(g)
    PROVE  Advances
<1>1. QueuesTyped
  BY DEF Typed
<1>2. /\ UNCHANGED <<runloop, t_state, is_close_triggered, err_before_ready, life, addon>>
      /\ UNCHANGED <<engine, extension_context, is_closing, cnt, start_graph, threads>>
  BY DEF GroupDeinitDone, engine_side, context
<1>3. /\ {<<"group_deinit_done", g>>} \in SUBSET GroupTasks(g)
      /\ {} \in SUBSET (GroupTasks(g) \ {<<"trigger_close", g>>})
      /\ {<<"remove_thread", g>>} \in SUBSET EngineTasksOf(g)
      /\ <<"remove_thread", g>> \in EngineTasks
  BY GroupKinds, EngineKinds DEF GroupNames, EngineTasksOf, EngineNames
<1>4. ThreadMoves(g, {<<"group_deinit_done", g>>}, {})
  BY <1>1, ThreadTakes DEF GroupDeinitDone
<1>5. EngineMoves({}, {<<"remove_thread", g>>})
  BY <1>1, <1>3, EnginePosts DEF GroupDeinitDone
<1>6. /\ Moves(t_queue[g], t_queue'[g], {<<"group_deinit_done", g>>}, {})
      /\ Moves(e_queue, e_queue', {}, {<<"remove_thread", g>>})
  BY <1>4, <1>5 DEF ThreadMoves, EngineMoves
<1>7. GroupIs(g, place[g]) /\ place[g] = 13
  BY <1>6, GroupOf DEF GroupIs, ThreadHas, Moves
<1>8. GroupIs(g, 14)'
  <2>1. ~Has(t_queue[g], <<"group_init_done", g>>)
    BY <1>6, <1>7 DEF GroupIs, ThreadHas, Moves
  <2>2. ThreadHas(g, 14, t_queue'[g], Told(g))
    BY <1>6, <1>7, <2>1 DEF GroupIs, ThreadHas, ThreadOnce, Moves
  <2>3. ThreadOnce(g, t_queue'[g])
    BY <1>6, <1>7 DEF GroupIs, ThreadOnce, Moves
  <2>4. EngineHas(g, 14, e_queue')
    BY <1>6, <1>7 DEF GroupIs, EngineHas, Moves
  <2>5. /\ AddonHas(g, 14, addon)
        /\ ThreadIs(14, runloop[g], t_state[g], g \in threads, Told(g))
        /\ \A x \in ExtOf(g) : ExtensionIs(14, ext_state[x], t_state[g], Told(g))
    BY <1>7 DEF GroupIs, AddonHas, ThreadIs, ExtensionIs
  <2> QED BY <1>2, <2>2, <2>3, <2>4, <2>5 DEF GroupIs, Told, life
<1>9. Touches(g) /\ Quiet(g)
  BY <1>2, Untouched DEF Quiet, Told
<1>10. Passes(place[g], 14) /\ 14 \in 5..19 /\ (place[g] \in {7, 11} => 14 = place[g])
  BY <1>7 DEF Passes
<1> QED BY <1>3, <1>4, <1>5, <1>8, <1>9, <1>10, QuietStep

LEMMA RemovedFromEngineStep ==
    ASSUME Typed, NEW place \in [Group -> Places], Placed(place), NEW g \in Group,
           RemovedFromEngine(g)
    PROVE  Advances
<1>1. QueuesTyped
  BY DEF Typed
<1>2. /\ UNCHANGED <<e_queue, runloop, t_state, is_close_triggered, err_before_ready, life>>
      /\ UNCHANGED <<engine, extension_context, is_closing, cnt, start_graph, threads>>
      /\ addon' = addon \union {<<"destroy_group", g>>}
  BY DEF RemovedFromEngine, engine_side, context
<1>3. /\ {<<"removed_from_engine", g>>} \in SUBSET GroupTasks(g)
      /\ {} \in SUBSET (GroupTasks(g) \ {<<"trigger_close", g>>})
      /\ {} \in SUBSET EngineTasksOf(g)
  BY GroupKinds DEF GroupNames
<1>4. ThreadMoves(g, {<<"removed_from_engine", g>>}, {})
  BY <1>1, ThreadTakes DEF RemovedFromEngine
<1>5. EngineMoves({}, {})
  BY <1>1, <1>2, EnginePosts
<1>6. Moves(t_queue[g], t_queue'[g], {<<"removed_from_engine", g>>}, {})
  BY <1>4 DEF ThreadMoves
<1>7. GroupIs(g, place[g]) /\ place[g] = 15
  BY <1>6, GroupOf DEF GroupIs, ThreadHas, Moves
<1>8. GroupIs(g, 16)'
  <2>1. ThreadHas(g, 16, t_queue'[g], Told(g))
    BY <1>6, <1>7 DEF GroupIs, ThreadHas, ThreadOnce, Moves
  <2>2. ThreadOnce(g, t_queue'[g])
    BY <1>6, <1>7 DEF GroupIs, ThreadOnce, Moves
  <2>3. AddonHas(g, 16, addon')
    BY <1>2, <1>7 DEF GroupIs, AddonHas
  <2>4. /\ EngineHas(g, 16, e_queue)
        /\ ThreadIs(16, runloop[g], t_state[g], g \in threads, Told(g))
        /\ \A x \in ExtOf(g) : ExtensionIs(16, ext_state[x], t_state[g], Told(g))
    BY <1>7 DEF GroupIs, EngineHas, ThreadIs, ExtensionIs
  <2> QED BY <1>2, <2>1, <2>2, <2>3, <2>4 DEF GroupIs, Told, life
<1>9. Touches(g) /\ Quiet(g)
  <2>1. <<"destroy_group", g>> \in RequestsOf(g)
    BY DEF RequestsOf
  <2>2. Quiet(g)
    BY <1>2 DEF Quiet, Told
  <2> QED BY <1>2, <2>1, <2>2, Untouched DEF Told
<1>10. Passes(place[g], 16) /\ 16 \in 5..19 /\ (place[g] \in {7, 11} => 16 = place[g])
  BY <1>7 DEF Passes
<1> QED BY <1>3, <1>4, <1>5, <1>8, <1>9, <1>10, QuietStep

LEMMA GroupDestroyedStep ==
    ASSUME Typed, NEW place \in [Group -> Places], Placed(place), NEW g \in Group, GroupDestroyed(g)
    PROVE  Advances
<1>1. QueuesTyped
  BY DEF Typed
<1>2. /\ UNCHANGED <<e_queue, t_state, is_close_triggered, err_before_ready, life, addon>>
      /\ UNCHANGED <<engine, extension_context, is_closing, cnt, start_graph, threads>>
      /\ runloop'[g] = "stopped" /\ \A h \in Group : h # g => runloop'[h] = runloop[h]
  BY DEF GroupDestroyed, engine_side, context, Typed, GroupsTyped
<1>3. /\ {<<"group_destroyed", g>>} \in SUBSET GroupTasks(g)
      /\ {} \in SUBSET (GroupTasks(g) \ {<<"trigger_close", g>>})
      /\ {} \in SUBSET EngineTasksOf(g)
  BY GroupKinds DEF GroupNames
<1>4. ThreadMoves(g, {<<"group_destroyed", g>>}, {})
  BY <1>1, ThreadTakes DEF GroupDestroyed
<1>5. EngineMoves({}, {})
  BY <1>1, <1>2, EnginePosts
<1>6. Moves(t_queue[g], t_queue'[g], {<<"group_destroyed", g>>}, {})
  BY <1>4 DEF ThreadMoves
<1>7. GroupIs(g, place[g]) /\ place[g] = 17
  BY <1>6, GroupOf DEF GroupIs, ThreadHas, Moves
<1>8. GroupIs(g, 18)'
  <2>1. ThreadHas(g, 18, t_queue'[g], Told(g))
    BY <1>6, <1>7 DEF GroupIs, ThreadHas, ThreadOnce, Moves
  <2>2. ThreadOnce(g, t_queue'[g])
    BY <1>6, <1>7 DEF GroupIs, ThreadOnce, Moves
  <2>3. /\ EngineHas(g, 18, e_queue) /\ AddonHas(g, 18, addon)
        /\ ThreadIs(18, "stopped", t_state[g], g \in threads, Told(g))
        /\ \A x \in ExtOf(g) : ExtensionIs(18, ext_state[x], t_state[g], Told(g))
    BY <1>7 DEF GroupIs, EngineHas, AddonHas, ThreadIs, ExtensionIs
  <2> QED BY <1>2, <2>1, <2>2, <2>3 DEF GroupIs, Told, life
<1>9. Touches(g) /\ Quiet(g)
  BY <1>2, Untouched DEF Quiet, Told
<1>10. Passes(place[g], 18) /\ 18 \in 5..19 /\ (place[g] \in {7, 11} => 18 = place[g])
  BY <1>7 DEF Passes
<1> QED BY <1>3, <1>4, <1>5, <1>8, <1>9, <1>10, QuietStep

LEMMA ThreadExitStep ==
    ASSUME Typed, NEW place \in [Group -> Places], Placed(place), NEW g \in Group, ThreadExit(g)
    PROVE  Advances
<1>1. QueuesTyped
  BY DEF Typed
<1>2. /\ UNCHANGED <<t_queue, is_close_triggered, err_before_ready, life, addon>>
      /\ UNCHANGED <<engine, extension_context, is_closing, cnt, start_graph, threads>>
      /\ runloop[g] = "stopped" /\ runloop'[g] = "exited" /\ t_state'[g] = "CLOSED"
      /\ \A h \in Group : h # g => runloop'[h] = runloop[h] /\ t_state'[h] = t_state[h]
  BY DEF ThreadExit, engine_side, context, Typed, GroupsTyped
<1>3. /\ {} \in SUBSET GroupTasks(g)
      /\ {} \in SUBSET (GroupTasks(g) \ {<<"trigger_close", g>>})
      /\ {<<"thread_closed", g>>} \in SUBSET EngineTasksOf(g)
      /\ <<"thread_closed", g>> \in EngineTasks
  BY GroupKinds, EngineKinds DEF GroupNames, EngineTasksOf, EngineNames
<1>4. ThreadMoves(g, {}, {})
  BY <1>1, <1>2, ThreadPosts
<1>5. EngineMoves({}, {<<"thread_closed", g>>})
  BY <1>1, <1>3, EnginePosts DEF ThreadExit
<1>6. Moves(e_queue, e_queue', {}, {<<"thread_closed", g>>})
  BY <1>5 DEF EngineMoves
<1>7. GroupIs(g, place[g]) /\ place[g] = 18
  <2>1. place[g] \in Places
    OBVIOUS
  <2> QED BY <1>2, <2>1, GroupOf DEF GroupIs, ThreadIs, Places
<1>8. GroupIs(g, 19)'
  <2>1. EngineHas(g, 19, e_queue')
    BY <1>6, <1>7 DEF GroupIs, EngineHas, Moves
  <2>2. /\ ThreadHas(g, 19, t_queue[g], Told(g)) /\ ThreadOnce(g, t_queue[g])
        /\ AddonHas(g, 19, addon)
        /\ ThreadIs(19, "exited", "CLOSED", g \in threads, Told(g))
        /\ \A x \in ExtOf(g) : ExtensionIs(19, ext_state[x], "CLOSED", Told(g))
    BY <1>7 DEF GroupIs, ThreadHas, AddonHas, ThreadIs, ExtensionIs
  <2> QED BY <1>2, <2>1, <2>2 DEF GroupIs, Told, life
<1>9. Touches(g) /\ Quiet(g)
  BY <1>2, Untouched DEF Quiet, Told
<1>10. Passes(place[g], 19) /\ 19 \in 5..19 /\ (place[g] \in {7, 11} => 19 = place[g])
  BY <1>7 DEF Passes
<1> QED BY <1>3, <1>4, <1>5, <1>8, <1>9, <1>10, QuietStep

LEMMA StartStep ==
    ASSUME Typed, NEW place \in [Group -> Places], Placed(place), NEW g \in Group, Start(g)
    PROVE  Advances
<1>1. QueuesTyped
  BY DEF Typed
<1>2. /\ UNCHANGED <<e_queue, runloop, t_state, is_close_triggered, err_before_ready, life, addon>>
      /\ UNCHANGED <<engine, extension_context, is_closing, cnt, start_graph, threads>>
  BY DEF Start, engine_side, context
<1>3. /\ <<"group_init_done", g>> \in ThreadTasks(g)
      /\ {<<"start", g>>} \in SUBSET GroupTasks(g)
      /\ {<<"group_init_done", g>>} \in SUBSET (GroupTasks(g) \ {<<"trigger_close", g>>})
      /\ {} \in SUBSET EngineTasksOf(g)
  BY GroupKinds DEF GroupNames
<1>4. ThreadMoves(g, {<<"start", g>>}, {<<"group_init_done", g>>})
  BY <1>1, <1>3, ThreadTakes DEF Start
<1>5. EngineMoves({}, {})
  BY <1>1, <1>2, EnginePosts
<1>6. Moves(t_queue[g], t_queue'[g], {<<"start", g>>}, {<<"group_init_done", g>>})
  BY <1>4 DEF ThreadMoves
<1>7. GroupIs(g, place[g]) /\ place[g] = 5
  BY <1>6, GroupOf DEF GroupIs, ThreadHas, Moves
<1>8. GroupIs(g, 6)'
  <2>1. ThreadHas(g, 6, t_queue'[g], Told(g))
    BY <1>6, <1>7 DEF GroupIs, ThreadHas, ThreadOnce, Moves
  <2>2. ThreadOnce(g, t_queue'[g])
    BY <1>6, <1>7 DEF GroupIs, ThreadHas, ThreadOnce, Moves
  <2>3. /\ EngineHas(g, 6, e_queue) /\ AddonHas(g, 6, addon)
        /\ ThreadIs(6, runloop[g], t_state[g], g \in threads, Told(g))
        /\ \A x \in ExtOf(g) : ExtensionIs(6, ext_state[x], t_state[g], Told(g))
    BY <1>7 DEF GroupIs, EngineHas, AddonHas, ThreadIs, ExtensionIs
  <2> QED BY <1>2, <2>1, <2>2, <2>3 DEF GroupIs, Told, life
<1>9. Touches(g) /\ Quiet(g)
  BY <1>2, Untouched DEF Quiet, Told
<1>10. Passes(place[g], 6) /\ 6 \in 5..19 /\ (place[g] \in {7, 11} => 6 = place[g])
  BY <1>7 DEF Passes
<1> QED BY <1>3, <1>4, <1>5, <1>8, <1>9, <1>10, QuietStep

LEMMA RemoveThreadStep ==
    ASSUME Typed, NEW place \in [Group -> Places], Placed(place), NEW g \in Group, RemoveThread(g)
    PROVE  Advances
<1>1. QueuesTyped
  BY DEF Typed
<1>2. /\ UNCHANGED <<runloop, t_state, is_close_triggered, err_before_ready, life, addon>>
      /\ UNCHANGED <<engine, extension_context, is_closing, cnt, start_graph>>
      /\ threads' = threads \ {g}
  BY DEF RemoveThread
<1>3. /\ <<"removed_from_engine", g>> \in ThreadTasks(g)
      /\ {} \in SUBSET GroupTasks(g)
      /\ {<<"removed_from_engine", g>>} \in SUBSET (GroupTasks(g) \ {<<"trigger_close", g>>})
      /\ {} \in SUBSET EngineTasksOf(g)
  BY GroupKinds DEF GroupNames
<1>4. ThreadMoves(g, {}, {<<"removed_from_engine", g>>})
  BY <1>1, <1>3, ThreadPosts DEF RemoveThread
<1>5. EngineMoves({<<"remove_thread", g>>}, {})
  BY <1>1, EngineTakes DEF RemoveThread
<1>6. /\ Moves(t_queue[g], t_queue'[g], {}, {<<"removed_from_engine", g>>})
      /\ Moves(e_queue, e_queue', {<<"remove_thread", g>>}, {})
  BY <1>4, <1>5 DEF ThreadMoves, EngineMoves
<1>7. GroupIs(g, place[g]) /\ place[g] = 14
  BY <1>6, GroupOf DEF GroupIs, EngineHas, Moves
<1>8. GroupIs(g, 15)'
  <2>1. ThreadHas(g, 15, t_queue'[g], Told(g))
    BY <1>6, <1>7 DEF GroupIs, ThreadHas, ThreadOnce, Moves
  <2>2. ThreadOnce(g, t_queue'[g])
    BY <1>6, <1>7 DEF GroupIs, ThreadHas, ThreadOnce, Moves
  <2>3. EngineHas(g, 15, e_queue')
    BY <1>6, <1>7 DEF GroupIs, EngineHas, Moves
  <2>4. /\ AddonHas(g, 15, addon)
        /\ ThreadIs(15, runloop[g], t_state[g], FALSE, Told(g))
        /\ \A x \in ExtOf(g) : ExtensionIs(15, ext_state[x], t_state[g], Told(g))
    BY <1>7 DEF GroupIs, AddonHas, ThreadIs, ExtensionIs
  <2>5. ThreadIs(15, runloop[g], t_state[g], g \in threads', Told(g))
    BY <1>2, <2>4 DEF ThreadIs
  <2> QED BY <1>2, <2>1, <2>2, <2>3, <2>4, <2>5 DEF GroupIs, Told, life
<1>9. Touches(g) /\ Quiet(g)
  BY <1>2, Untouched DEF Quiet, Told
<1>10. Passes(place[g], 15) /\ 15 \in 5..19 /\ (place[g] \in {7, 11} => 15 = place[g])
  BY <1>7 DEF Passes
<1> QED BY <1>3, <1>4, <1>5, <1>8, <1>9, <1>10, QuietStep

\* What At says of an extension besides its state.
ExtensionHas(x, p) ==
    /\ Answers(x, p, t_queue[x[1]], ext_state[x], addon)
    /\ LifeGoesOn(x, t_queue[x[1]], ext_state[x], x \in path_timers, proxy[x])

LEMMA AtParts ==
    ASSUME NEW g \in Group, NEW p
    PROVE  /\ At(g, p) <=> GroupIs(g, p) /\ \A x \in ExtOf(g) : ExtensionHas(x, p)
           /\ At(g, p)' <=> GroupIs(g, p)' /\ \A x \in ExtOf(g) : ExtensionHas(x, p)'
BY ExtGroup DEF At, GroupIs, ExtensionHas, ExtensionAt, Told

LEMMA HasOf ==
    ASSUME NEW place, Placed(place), NEW g \in Group, NEW x \in ExtOf(g)
    PROVE  /\ Answers(x, place[g], t_queue[g], ext_state[x], addon)
           /\ LifeGoesOn(x, t_queue[g], ext_state[x], x \in path_timers, proxy[x])
           /\ x \in Extension /\ x[1] = g
BY ExtGroup DEF Placed, At, ExtensionAt

\* The tasks of the extensions are not those of their group.
LEMMA LifeApart ==
    ASSUME NEW g, NEW tt \in SUBSET GroupTasks(g), NEW tp \in SUBSET GroupTasks(g),
           NEW x, NEW q, NEW r, Moves(q, r, tt, tp), NEW s, NEW timed, NEW px
    PROVE  LifeGoesOn(x, q, s, timed, px) => LifeGoesOn(x, r, s, timed, px)
<1>1. \A n \in {"on_init", "on_start", "timers_closed", "proxy_deleted", "del_extension"} :
          <<n, x>> \notin tt /\ <<n, x>> \notin tp
  BY DEF GroupTasks, GroupNames
<1> QED BY <1>1, LifeStays

LEMMA GroupInitDoneStep ==
    ASSUME Typed, NEW place \in [Group -> Places], Placed(place), NEW g \in Group, GroupInitDone(g)
    PROVE  Advances
<1>1. QueuesTyped /\ \A x \in Extension : ext_state[x] \in ExtStates
  BY DEF Typed, ExtsTyped
<1>2. /\ UNCHANGED <<runloop, is_close_triggered, err_before_ready, life>>
      /\ UNCHANGED <<engine, extension_context, is_closing, cnt, start_graph, threads>>
  BY DEF GroupInitDone, engine_side, context
<1>3. /\ {<<"group_init_done", g>>} \in SUBSET GroupTasks(g)
      /\ {} \in SUBSET GroupTasks(g)
      /\ {} \in SUBSET (GroupTasks(g) \ {<<"trigger_close", g>>})
      /\ {} \in SUBSET EngineTasksOf(g) /\ {<<"find_info", g>>} \in SUBSET EngineTasksOf(g)
      /\ <<"find_info", g>> \in EngineTasks
  BY GroupKinds, EngineKinds DEF GroupNames, EngineTasksOf, EngineNames
<1>4. ThreadMoves(g, {<<"group_init_done", g>>}, {})
  BY <1>1, ThreadTakes DEF GroupInitDone
<1>5. Moves(t_queue[g], t_queue'[g], {<<"group_init_done", g>>}, {})
  BY <1>4 DEF ThreadMoves
<1>6. GroupIs(g, place[g]) /\ place[g] \in {6, 13}
  BY <1>5, GroupOf DEF GroupIs, ThreadHas, Moves
<1>7. ThreadOnce(g, t_queue'[g])
  BY <1>5, <1>6 DEF GroupIs, ThreadOnce, Moves
<1>8. CASE Told(g)
  <2>1. UNCHANGED <<t_state, addon, e_queue>>
    BY <1>8 DEF GroupInitDone, Told
  <2>2. EngineMoves({}, {})
    BY <1>1, <2>1, EnginePosts
  <2>3. ThreadHas(g, place[g], t_queue'[g], Told(g))
    BY <1>5, <1>6 DEF GroupIs, ThreadHas, ThreadOnce, Moves
  <2>4. GroupIs(g, place[g])'
    BY <1>2, <1>6, <1>7, <2>1, <2>3 DEF GroupIs, Told, life
  <2>5. Touches(g) /\ Quiet(g)
    BY <1>2, <2>1, Untouched DEF Quiet, Told
  <2>6. Passes(place[g], place[g]) /\ place[g] \in 5..19
    BY <1>6 DEF Passes
  <2> QED BY <1>3, <1>4, <2>2, <2>4, <2>5, <2>6, QuietStep
<1>9. CASE ~Told(g)
  <2> DEFINE b == IF NExt[g] = 0 THEN 8 ELSE 7
             posts == IF NExt[g] = 0 THEN {<<"find_info", g>>} ELSE {}
  <2>1. /\ t_state' = [t_state EXCEPT ![g] = "CREATING_EXTENSIONS"]
        /\ addon' = addon \union {<<"create_ext", x>> : x \in ExtOf(g)}
        /\ e_queue' = IF NExt[g] = 0 THEN Append(e_queue, <<"find_info", g>>) ELSE e_queue
    BY <1>9 DEF GroupInitDone, Told
  <2>2. EngineMoves({}, posts) /\ posts \in SUBSET EngineTasksOf(g)
    BY <1>1, <1>3, <2>1, EnginePosts
  <2>3. Moves(e_queue, e_queue', {}, posts)
    BY <2>2 DEF EngineMoves
  <2>4. place[g] = 6
    BY <1>6, <1>9 DEF GroupIs, ThreadIs
  <2>5. t_state'[g] = "CREATING_EXTENSIONS" /\ \A h \in Group : h # g => t_state'[h] = t_state[h]
    BY <2>1 DEF Typed, GroupsTyped
  <2>6. NExt[g] = 0 => ExtOf(g) = {}
    BY DEF ExtOf
  <2>7. \A x \in ExtOf(g) : ext_state[x] = "none"
    BY <1>1, <1>6, <2>4, ExtGroup DEF GroupIs, ExtensionIs, ExtStates, Living, StartFlow, CloseFlow
  <2>8. GroupIs(g, b)'
    <3>1. EngineHas(g, b, e_queue')
      BY <1>6, <2>3, <2>4 DEF GroupIs, EngineHas, Moves
    <3>2. AddonHas(g, b, addon')
      BY <1>6, <2>1, <2>4 DEF GroupIs, AddonHas
    <3>3. ThreadHas(g, b, t_queue'[g], Told(g))
      BY <1>5, <1>6, <2>4 DEF GroupIs, ThreadHas, ThreadOnce, Moves
    <3>4. ThreadIs(b, runloop[g], "CREATING_EXTENSIONS", g \in threads, Told(g))
      BY <1>6, <2>4 DEF GroupIs, ThreadIs
    <3>5. \A x \in ExtOf(g) : ExtensionIs(b, ext_state[x], "CREATING_EXTENSIONS", Told(g))
      BY <2>6, <2>7 DEF ExtensionIs, Living, StartFlow, CloseFlow
    <3> QED BY <1>2, <1>7, <2>5, <3>1, <3>2, <3>3, <3>4, <3>5 DEF GroupIs, Told, life
  <2>9. ASSUME NEW x \in ExtOf(g) PROVE ExtensionHas(x, b)'
    <3>1. /\ Answers(x, 6, t_queue[g], "none", addon)
          /\ LifeGoesOn(x, t_queue[g], ext_state[x], x \in path_timers, proxy[x])
          /\ x[1] = g
      BY <2>4, <2>7, HasOf
    <3>2. b = 7
      BY <2>6
    <3>3. Answers(x, 7, t_queue'[g], "none", addon')
      BY <1>5, <2>1, <3>1 DEF Answers, Moves
    <3>4. LifeGoesOn(x, t_queue'[g], ext_state[x], x \in path_timers, proxy[x])
      BY <1>3, <1>5, <3>1, LifeApart
    <3> QED BY <1>2, <2>7, <3>1, <3>2, <3>3, <3>4 DEF ExtensionHas, life
  <2>10. At(g, b)'
    BY <2>8, <2>9, AtParts
  <2>11. Touches(g)
    <3>1. \A r \in addon' : r \in addon \/ r \in RequestsOf(g)
      BY <2>1 DEF RequestsOf
    <3> QED BY <1>2, <2>5, <3>1, Untouched DEF Told
  <2>12. 6 \in 5..19 /\ b \in 5..19 /\ 6 <= b /\ b <= 8 /\ 6 <= 8
    OBVIOUS
  <2>13. Told(g)' => Told(g)
    BY <1>2 DEF Told
  <2>14. <<"trigger_close", g>> \notin {}
    OBVIOUS
  <2> HIDE DEF b, posts
  <2> QED BY <1>2, <1>4, <2>2, <2>4, <2>10, <2>11, <2>12, <2>13, <2>14, GroupStep
<1> QED BY <1>8, <1>9

\* An extension between two callbacks is stopped at once.
LEMMA LifeStops ==
    ASSUME NEW x, NEW q, NEW s, NEW timed, NEW px, LifeGoesOn(x, q, s, timed, px),
           s \in {"ON_CONFIGURE_DONE", "ON_INIT_DONE", "ON_START_DONE"}
    PROVE  LifeGoesOn(x, q, "ON_STOP", timed, px)
BY DEF LifeGoesOn, StoppedBefore, Living, StartFlow

LEMMA StopStep ==
    ASSUME Typed, NEW place \in [Group -> Places], Placed(place), NEW g \in Group, place[g] \in {9, 10},
           NEW task \in {"stop_life_cycle", "trigger_close"}, StopLifeCycle(g, task),
           UNCHANGED <<engine_side, e_queue, runloop, err_before_ready, path_timers, proxy, addon>>,
           is_close_triggered' = is_close_triggered \union {g}, is_closing,
           task = "stop_life_cycle" => Told(g), task = "trigger_close" => place[g] = 10
    PROVE  Advances
<1>0. PICK b, posts :
         /\ Extensions(g) = {} => b = 13 /\ posts = {<<"group_deinit_done", g>>}
         /\ Extensions(g) # {} => b = 10 /\ posts = {}
  <2>1. CASE Extensions(g) = {}
    BY <2>1
  <2>2. CASE Extensions(g) # {}
    BY <2>2
  <2> QED BY <2>1, <2>2
<1> DEFINE stops == {x \in Extensions(g) :
                        ext_state[x] \in {"ON_CONFIGURE_DONE", "ON_INIT_DONE", "ON_START_DONE"}}
<1>1. QueuesTyped /\ \A x \in Extension : ext_state[x] \in ExtStates
  BY DEF Typed, ExtsTyped
<1>2. /\ UNCHANGED <<engine, extension_context, is_closing, cnt, start_graph, threads>>
      /\ \A h \in Group : h # g => (h \in is_close_triggered' <=> h \in is_close_triggered)
      /\ g \in is_close_triggered'
  BY DEF engine_side, context
<1>18. /\ e_queue' = e_queue /\ runloop' = runloop /\ addon' = addon /\ threads' = threads
       /\ path_timers' = path_timers /\ proxy' = proxy /\ err_before_ready' = err_before_ready
  BY DEF engine_side, context
<1>3. /\ {<<task, g>>} \in SUBSET GroupTasks(g)
      /\ {} \in SUBSET GroupTasks(g)
      /\ {<<"group_deinit_done", g>>} \in SUBSET GroupTasks(g)
      /\ {} \in SUBSET EngineTasksOf(g)
      /\ <<"group_deinit_done", g>> \in ThreadTasks(g)
  BY GroupKinds DEF GroupNames
<1>4. ThreadMoves(g, {<<task, g>>}, posts) /\ posts \in SUBSET GroupTasks(g)
  <2>1. ThreadTask(g, task, g, IF Extensions(g) = {} THEN <<<<"group_deinit_done", g>>>> ELSE <<>>)
    BY DEF StopLifeCycle
  <2>2. CASE Extensions(g) = {}
    <3>1. ThreadTask(g, task, g, <<<<"group_deinit_done", g>>>>)
      BY <2>1, <2>2
    <3>2. ThreadMoves(g, {<<task, g>>}, {<<"group_deinit_done", g>>})
      BY <1>1, <1>3, <3>1, ThreadTakes
    <3> QED BY <1>0, <1>3, <2>2, <3>2
  <2>3. CASE Extensions(g) # {}
    BY <1>0, <1>1, <1>3, <2>1, <2>3, ThreadTakes
  <2> QED BY <2>2, <2>3
<1>5. Moves(t_queue[g], t_queue'[g], {<<task, g>>}, posts)
  BY <1>4 DEF ThreadMoves
<1>6. EngineMoves({}, {})
  BY <1>1, EnginePosts
<1>7. GroupIs(g, place[g])
  BY GroupOf
<1>8. /\ t_state'[g] = "PREPARE_TO_CLOSE" /\ \A h \in Group : h # g => t_state'[h] = t_state[h]
      /\ \A x \in Extension : ext_state'[x] = IF x \in stops THEN "ON_STOP" ELSE ext_state[x]
  BY DEF StopLifeCycle, Typed, GroupsTyped
<1>9. \A x \in ExtOf(g) : x \in Extension /\ x[1] = g
  BY ExtGroup
<1>10. ASSUME NEW x \in ExtOf(g)
       PROVE  /\ x \in stops =>
                    /\ ext_state[x] \in {"ON_CONFIGURE_DONE", "ON_INIT_DONE", "ON_START_DONE"}
                    /\ b = 10 /\ ext_state'[x] = "ON_STOP"
              /\ x \notin stops => /\ ext_state'[x] = ext_state[x]
                                   /\ ext_state[x] \notin {"none", "failed"} => b = 10
  <2>1. x \in Extensions(g) => b = 10
    BY <1>0
  <2>2. x \notin Extensions(g) => ext_state[x] \in {"none", "failed"}
    BY DEF Extensions
  <2>3. x \in stops => x \in Extensions(g)
    OBVIOUS
  <2> QED BY <1>8, <1>9, <2>1, <2>2, <2>3
<1>11. b \in {10, 13} /\ posts \in SUBSET {<<"group_deinit_done", g>>} /\ (posts # {} => b = 13)
  BY <1>0
<1> HIDE DEF stops
<1>12. GroupIs(g, b)'
  <2>1. ThreadHas(g, b, t_queue'[g], TRUE)
    <3>1. Has(t_queue[g], <<task, g>>) /\ ThreadHas(g, place[g], t_queue[g], Told(g)) /\ ThreadOnce(g, t_queue[g])
      BY <1>5, <1>7 DEF GroupIs, Moves
    <3>2. /\ \A n \in GroupNames \ {"group_deinit_done"} :
                Has(t_queue'[g], <<n, g>>) => Has(t_queue[g], <<n, g>>) /\ n # task
          /\ Has(t_queue'[g], <<"group_deinit_done", g>>) =>
                Has(t_queue[g], <<"group_deinit_done", g>>) \/ b = 13
      <4>1. \A n \in GroupNames \ {"group_deinit_done"} : <<n, g>> \notin posts
        BY <1>11
      <4>2. Once(t_queue[g], <<task, g>>)
        BY <3>1 DEF ThreadOnce
      <4>3. ~Has(t_queue'[g], <<task, g>>)
        BY <1>5, <4>1, <4>2 DEF Moves, GroupNames
      <4> QED BY <1>5, <1>11, <4>1, <4>3 DEF Moves
    <3>3. ~Has(t_queue'[g], <<"start", g>>) /\ ~Has(t_queue'[g], <<"group_init_done", g>>)
      BY <3>1, <3>2 DEF ThreadHas, GroupNames
    <3>4. ~Has(t_queue'[g], <<"start_life_cycle", g>>) /\ ~Has(t_queue'[g], <<"stop_life_cycle", g>>)
      BY <3>1, <3>2 DEF ThreadHas, GroupNames
    <3>5. /\ ~Has(t_queue'[g], <<"trigger_close", g>>)
          /\ ~Has(t_queue'[g], <<"all_extensions_deleted", g>>)
      BY <3>1, <3>2 DEF ThreadHas, GroupNames
    <3>6. /\ ~Has(t_queue'[g], <<"removed_from_engine", g>>)
          /\ ~Has(t_queue'[g], <<"group_destroyed", g>>)
          /\ Has(t_queue'[g], <<"group_deinit_done", g>>) => b = 13
      BY <3>1, <3>2 DEF ThreadHas, GroupNames
    <3> QED BY <3>3, <3>4, <3>5, <3>6 DEF ThreadHas
  <2>2. ThreadOnce(g, t_queue'[g])
    <3>1. \A u \in posts : ~Has(t_queue[g], u)
      BY <1>7, <1>11 DEF GroupIs, ThreadHas
    <3> QED BY <1>5, <1>7, <3>1 DEF GroupIs, ThreadOnce, Moves
  <2>3. EngineHas(g, b, e_queue) /\ AddonHas(g, b, addon)
    BY <1>7, <1>11 DEF GroupIs, EngineHas, AddonHas
  <2>4. ThreadIs(b, runloop[g], "PREPARE_TO_CLOSE", g \in threads, TRUE)
    BY <1>7, <1>11 DEF GroupIs, ThreadIs
  <2>5. ASSUME NEW x \in ExtOf(g) PROVE ExtensionIs(b, ext_state'[x], "PREPARE_TO_CLOSE", TRUE)
    <3>1. ExtensionIs(place[g], ext_state[x], t_state[g], Told(g)) /\ ext_state[x] \in ExtStates
      BY <1>1, <1>7, <1>9 DEF GroupIs
    <3>2. CASE x \in stops
      BY <1>10, <3>2 DEF ExtensionIs, CloseFlow, Living, StartFlow
    <3>3. CASE x \notin stops
      <4>1. ext_state'[x] = ext_state[x] /\ (ext_state[x] \in {"none", "failed"} \/ b = 10)
        BY <1>10, <3>3
      <4>2. ext_state[x] # "destroyed" /\ ext_state[x] # "none"
        BY <3>1 DEF ExtensionIs
      <4> QED BY <1>11, <3>1, <4>1, <4>2 DEF ExtensionIs, CloseFlow, Living, StartFlow
    <3> QED BY <3>2, <3>3
  <2>6. GroupIs(g, b)' <=>
            /\ EngineHas(g, b, e_queue) /\ AddonHas(g, b, addon)
            /\ ThreadHas(g, b, t_queue'[g], g \in is_close_triggered') /\ ThreadOnce(g, t_queue'[g])
            /\ ThreadIs(b, runloop[g], t_state'[g], g \in threads, g \in is_close_triggered')
            /\ \A x \in ExtOf(g) : ExtensionIs(b, ext_state'[x], t_state'[g], g \in is_close_triggered')
    BY <1>18 DEF GroupIs, Told
  <2>7. (g \in is_close_triggered') = TRUE
    BY <1>2
  <2> QED BY <1>8, <2>1, <2>2, <2>3, <2>4, <2>5, <2>6, <2>7
<1>13. ASSUME NEW x \in ExtOf(g) PROVE ExtensionHas(x, b)'
  <2>1. /\ Answers(x, place[g], t_queue[g], ext_state[x], addon)
        /\ LifeGoesOn(x, t_queue[g], ext_state[x], x \in path_timers, proxy[x])
        /\ x[1] = g
    BY HasOf
  <2>2. LifeGoesOn(x, t_queue[g], ext_state'[x], x \in path_timers, proxy[x])
    BY <1>10, <2>1, LifeStops
  <2>3. LifeGoesOn(x, t_queue'[g], ext_state'[x], x \in path_timers, proxy[x])
    BY <1>3, <1>4, <1>5, <2>2, LifeApart
  <2>4. \A n \in {"ext_created", "ext_failed", "ext_destroyed"} :
            /\ Has(t_queue'[g], <<n, x>>) => Has(t_queue[g], <<n, x>>)
            /\ Once(t_queue[g], <<n, x>>) => Once(t_queue'[g], <<n, x>>)
    <3>1. \A n \in {"ext_created", "ext_failed", "ext_destroyed"} : <<n, x>> \notin posts
      BY <1>11
    <3> QED BY <1>5, <3>1 DEF Moves
  <2>5. Answers(x, b, t_queue'[g], ext_state'[x], addon)
    BY <2>1, <2>4 DEF Answers
  <2> QED BY <1>18, <2>1, <2>3, <2>5 DEF ExtensionHas
<1>14. At(g, b)'
  BY <1>12, <1>13, AtParts
<1>15. Touches(g)
  <2>1. \A x \in Extension : x[1] # g => ext_state'[x] = ext_state[x]
    <3>1. \A x \in Extension : x[1] # g => x \notin stops
      BY <1>9 DEF stops, Extensions
    <3> QED BY <1>8, <3>1
  <2> QED BY <1>2, <1>8, <2>1 DEF Touches
<1>16. place[g] \in 5..19 /\ b \in 5..19 /\ place[g] <= b /\ place[g] >= 9
  BY <1>11
<1>17. <<"trigger_close", g>> \notin posts
  BY <1>11
<1> HIDE DEF StopLifeCycle
<1> QED BY <1>2, <1>3, <1>4, <1>6, <1>14, <1>15, <1>16, <1>17, <1>18, GroupStep

LEMMA Taken ==
    ASSUME QueuesTyped
    PROVE  /\ \A g \in Group : \A n, a, posts : ThreadTask(g, n, a, posts) => Has(t_queue[g], <<n, a>>)
           /\ \A n, a, posts : EngineTask(n, a, posts) => Has(e_queue, <<n, a>>)
<1>1. ASSUME NEW g \in Group, NEW n, NEW a, NEW posts, ThreadTask(g, n, a, posts)
      PROVE  Has(t_queue[g], <<n, a>>)
  <2>1. t_queue[g] \in Seq(ThreadTasks(g)) /\ t_queue[g] # <<>> /\ Head(t_queue[g]) = <<n, a>>
    BY <1>1 DEF QueuesTyped, ThreadTask
  <2>2. Has(t_queue[g], Head(t_queue[g]))
    BY <2>1, HasTail
  <2> QED BY <2>1, <2>2
<1>2. ASSUME NEW n, NEW a, NEW posts, EngineTask(n, a, posts) PROVE Has(e_queue, <<n, a>>)
  <2>1. e_queue \in Seq(EngineTasks) /\ e_queue # <<>> /\ Head(e_queue) = <<n, a>>
    BY <1>2 DEF QueuesTyped, EngineTask
  <2>2. Has(e_queue, Head(e_queue))
    BY <2>1, HasTail
  <2> QED BY <2>1, <2>2
<1> QED BY <1>1, <1>2

LEMMA StopLifeCycleTaskStep ==
    ASSUME Typed, NEW place \in [Group -> Places], Placed(place), NEW g \in Group, StopLifeCycleTask(g)
    PROVE  Advances
<1>1. /\ StopLifeCycle(g, "stop_life_cycle")
      /\ UNCHANGED <<engine_side, e_queue, runloop, err_before_ready, path_timers, proxy, addon>>
      /\ is_close_triggered' = is_close_triggered
  BY DEF StopLifeCycleTask
<1>2. Has(t_queue[g], <<"stop_life_cycle", g>>)
  BY <1>1, Taken DEF StopLifeCycle, Typed
<1>3. place[g] = 9 /\ Told(g)
  BY <1>2, GroupOf DEF GroupIs, ThreadHas
<1>4. is_closing
  BY <1>3 DEF Placed, EngineAt, ToldByEngine
<1>5. is_close_triggered' = is_close_triggered \union {g}
  BY <1>1, <1>3 DEF Told
<1>6. place[g] \in {9, 10} /\ "stop_life_cycle" \in {"stop_life_cycle", "trigger_close"}
  BY <1>3
<1> QED BY <1>1, <1>3, <1>4, <1>5, <1>6, StopStep

LEMMA TriggerCloseStep ==
    ASSUME Typed, NEW place \in [Group -> Places], Placed(place), NEW g \in Group, TriggerClose(g)
    PROVE  Advances
<1>1. QueuesTyped /\ t_state[g] \in {"INIT", "CREATING_EXTENSIONS", "NORMAL", "PREPARE_TO_CLOSE", "CLOSED"}
  BY DEF Typed, GroupsTyped
<1>2. /\ UNCHANGED <<engine_side, e_queue, runloop, err_before_ready, path_timers, proxy, addon>>
      /\ is_close_triggered' = is_close_triggered \union {g}
  BY DEF TriggerClose
<1>3. \A n, posts : ThreadTask(g, n, g, posts) => Has(t_queue[g], <<n, g>>)
  BY <1>1, Taken
<1>4. Has(t_queue[g], <<"trigger_close", g>>)
  BY <1>3 DEF TriggerClose, StopLifeCycle
<1>5. GroupIs(g, place[g]) /\ ~Told(g) /\ place[g] \in 5..10
  BY <1>4, GroupOf DEF GroupIs, ThreadHas
<1>6. is_closing /\ Told(g) = FALSE
  BY <1>4, <1>5 DEF Placed, EngineAt, ToldByEngine, Told
<1>7. /\ <<"group_deinit_done", g>> \in ThreadTasks(g)
      /\ {<<"trigger_close", g>>} \in SUBSET GroupTasks(g)
      /\ {<<"group_deinit_done", g>>} \in SUBSET (GroupTasks(g) \ {<<"trigger_close", g>>})
      /\ {} \in SUBSET (GroupTasks(g) \ {<<"trigger_close", g>>})
      /\ {} \in SUBSET EngineTasksOf(g)
  BY GroupKinds DEF GroupNames
<1>8. EngineMoves({}, {})
  BY <1>1, <1>2, EnginePosts
<1>9. /\ engine' = engine /\ extension_context' = extension_context /\ is_closing' = is_closing
      /\ cnt' = cnt /\ start_graph' = start_graph /\ threads' = threads
      /\ (g \in is_close_triggered') = TRUE
      /\ \A h \in Group : h # g => (Told(h)' <=> Told(h))
  BY <1>2 DEF engine_side, context, Told
<1>10. CASE /\ t_state[g] = "INIT"
            /\ ThreadTask(g, "trigger_close", g, <<<<"group_deinit_done", g>>>>)
            /\ UNCHANGED <<t_state, ext_state>>
  <2>1. ThreadMoves(g, {<<"trigger_close", g>>}, {<<"group_deinit_done", g>>})
    BY <1>1, <1>7, <1>10, ThreadTakes
  <2>2. Moves(t_queue[g], t_queue'[g], {<<"trigger_close", g>>}, {<<"group_deinit_done", g>>})
    BY <2>1 DEF ThreadMoves
  <2>3. place[g] \in 5..6
    BY <1>5, <1>10 DEF GroupIs, ThreadIs
  <2>4. GroupIs(g, 13)'
    <3>1. ThreadHas(g, place[g], t_queue[g], FALSE) /\ ThreadOnce(g, t_queue[g])
      BY <1>5, <1>6 DEF GroupIs
    <3>2. ~Has(t_queue'[g], <<"start", g>>)
      BY <2>2, <3>1 DEF ThreadHas, Moves
    <3>3. Has(t_queue'[g], <<"group_init_done", g>>) =>
              Precedes(t_queue'[g], <<"group_init_done", g>>, <<"group_deinit_done", g>>)
      <4>1. ~Has(t_queue[g], <<"group_deinit_done", g>>)
        BY <2>3, <3>1 DEF ThreadHas
      <4>2. Precedes(t_queue[g], <<"group_init_done", g>>, <<"group_deinit_done", g>>)
        BY <4>1 DEF Precedes, Has
      <4> QED BY <2>2, <4>2 DEF Moves
    <3>4. ThreadHas(g, 13, t_queue'[g], TRUE)
      BY <2>2, <2>3, <3>1, <3>2, <3>3 DEF ThreadHas, ThreadOnce, Moves
    <3>5. ThreadOnce(g, t_queue'[g])
      BY <2>2, <2>3, <3>1 DEF ThreadHas, ThreadOnce, Moves
    <3>6. EngineHas(g, 13, e_queue) /\ AddonHas(g, 13, addon)
      BY <1>5, <2>3 DEF GroupIs, EngineHas, AddonHas
    <3>7. ThreadIs(13, runloop[g], t_state[g], g \in threads, TRUE)
      BY <1>5, <1>10, <2>3 DEF GroupIs, ThreadIs
    <3>8. \A x \in ExtOf(g) : ExtensionIs(13, ext_state[x], t_state[g], TRUE)
      BY <1>5, <1>10, <2>3 DEF GroupIs, ExtensionIs
    <3> QED BY <1>2, <1>9, <1>10, <3>4, <3>5, <3>6, <3>7, <3>8 DEF GroupIs, Told
  <2>5. Touches(g) /\ Quiet(g)
    BY <1>2, <1>6, <1>9, <1>10, Untouched DEF Quiet, life
  <2>6. Passes(place[g], 13) /\ 13 \in 5..19 /\ (place[g] \in {7, 11} => 13 = place[g])
    BY <1>6, <2>3 DEF Passes
  <2> QED BY <1>7, <1>8, <2>1, <2>4, <2>5, <2>6, QuietStep
<1>11. CASE /\ t_state[g] = "CREATING_EXTENSIONS"
            /\ ThreadTask(g, "trigger_close", g, <<>>)
            /\ UNCHANGED <<t_state, ext_state>>
  <2>1. ThreadMoves(g, {<<"trigger_close", g>>}, {})
    BY <1>1, <1>11, ThreadTakes
  <2>2. Moves(t_queue[g], t_queue'[g], {<<"trigger_close", g>>}, {})
    BY <2>1 DEF ThreadMoves
  <2>3. place[g] \in 7..10
    BY <1>5, <1>11 DEF GroupIs, ThreadIs
  <2>4. GroupIs(g, place[g])'
    <3> DEFINE b == place[g]
    <3>1. ThreadHas(g, b, t_queue[g], FALSE) /\ ThreadOnce(g, t_queue[g]) /\ b \in 7..10
      BY <1>5, <1>6, <2>3 DEF GroupIs
    <3> HIDE DEF b
    <3>2. ThreadHas(g, b, t_queue'[g], TRUE)
      BY <2>2, <3>1 DEF ThreadHas, ThreadOnce, Moves
    <3>3. ThreadOnce(g, t_queue'[g])
      BY <2>2, <3>1 DEF ThreadOnce, Moves
    <3>4. EngineHas(g, b, e_queue) /\ AddonHas(g, b, addon)
      BY <1>5 DEF GroupIs, b
    <3>5. ThreadIs(b, runloop[g], t_state[g], g \in threads, TRUE)
      BY <1>5, <1>11 DEF GroupIs, ThreadIs, b
    <3>6. \A x \in ExtOf(g) : ExtensionIs(b, ext_state[x], t_state[g], TRUE)
      BY <1>5, <1>11 DEF GroupIs, ExtensionIs, b
    <3> QED BY <1>2, <1>9, <1>11, <3>2, <3>3, <3>4, <3>5, <3>6 DEF GroupIs, Told, b
  <2>5. Touches(g) /\ Quiet(g)
    BY <1>2, <1>6, <1>9, <1>11, Untouched DEF Quiet, life
  <2>6. Passes(place[g], place[g]) /\ place[g] \in 5..19
    BY <1>6, <2>3 DEF Passes
  <2> QED BY <1>7, <1>8, <2>1, <2>4, <2>5, <2>6, QuietStep
<1>12. CASE t_state[g] = "NORMAL" /\ StopLifeCycle(g, "trigger_close")
  <2>1. place[g] = 10
    BY <1>5, <1>12 DEF GroupIs, ThreadIs
  <2>2. place[g] \in {9, 10} /\ "trigger_close" \in {"stop_life_cycle", "trigger_close"}
    BY <2>1
  <2> QED BY <1>2, <1>6, <1>12, <2>1, <2>2, StopStep
<1> QED BY <1>5, <1>10, <1>11, <1>12 DEF TriggerClose, Told

LEMMA LifeBegins ==
    ASSUME NEW x, NEW q, NEW timed, NEW px, LifeGoesOn(x, q, "INIT", timed, px)
    PROVE  LifeGoesOn(x, q, "ON_CONFIGURE", timed, px)
BY DEF LifeGoesOn, StoppedBefore, Living, StartFlow

LEMMA StartLifeCycleStep ==
    ASSUME Typed, NEW place \in [Group -> Places], Placed(place), NEW g \in Group, StartLifeCycle(g)
    PROVE  Advances
<1>1. /\ QueuesTyped /\ \A x \in Extension : ext_state[x] \in ExtStates
      /\ t_state[g] \in {"INIT", "CREATING_EXTENSIONS", "NORMAL", "PREPARE_TO_CLOSE", "CLOSED"}
  BY DEF Typed, GroupsTyped, ExtsTyped
<1>2. /\ UNCHANGED <<e_queue, runloop, is_close_triggered, err_before_ready, path_timers, proxy, addon>>
      /\ UNCHANGED <<engine, extension_context, is_closing, cnt, start_graph, threads>>
  BY DEF StartLifeCycle, engine_side, context
<1>3. /\ {<<"start_life_cycle", g>>} \in SUBSET GroupTasks(g)
      /\ {} \in SUBSET (GroupTasks(g) \ {<<"trigger_close", g>>})
      /\ {} \in SUBSET GroupTasks(g)
      /\ {} \in SUBSET EngineTasksOf(g)
  BY GroupKinds DEF GroupNames
<1>4. ThreadMoves(g, {<<"start_life_cycle", g>>}, {})
  BY <1>1, ThreadTakes DEF StartLifeCycle
<1>5. EngineMoves({}, {})
  BY <1>1, <1>2, EnginePosts
<1>6. Moves(t_queue[g], t_queue'[g], {<<"start_life_cycle", g>>}, {})
  BY <1>4 DEF ThreadMoves
<1>7. GroupIs(g, 9) /\ place[g] = 9 /\ t_state[g] = "CREATING_EXTENSIONS"
  <2>1. GroupIs(g, place[g]) /\ place[g] = 9
    BY <1>6, GroupOf DEF GroupIs, ThreadHas, Moves
  <2> QED BY <1>1, <2>1 DEF GroupIs, ThreadIs
<1>8. ThreadHas(g, 10, t_queue'[g], Told(g))
  BY <1>6, <1>7 DEF GroupIs, ThreadHas, ThreadOnce, Moves
<1>9. ThreadOnce(g, t_queue'[g])
  BY <1>6, <1>7 DEF GroupIs, ThreadOnce, Moves
<1>10. EngineHas(g, 10, e_queue) /\ AddonHas(g, 10, addon)
  BY <1>7 DEF GroupIs, EngineHas, AddonHas
<1>11. \A x \in ExtOf(g) : ext_state[x] \in {"INIT", "failed"} /\ x \in Extension /\ x[1] = g
  BY <1>1, <1>7, ExtGroup DEF GroupIs, ExtensionIs, ExtStates, Living, StartFlow, CloseFlow
<1>12. CASE Told(g)
  <2>1. UNCHANGED <<t_state, ext_state>>
    BY <1>12 DEF StartLifeCycle, Told
  <2>2. ThreadIs(10, runloop[g], t_state[g], g \in threads, Told(g))
    BY <1>7 DEF GroupIs, ThreadIs
  <2>3. \A x \in ExtOf(g) : ExtensionIs(10, ext_state[x], t_state[g], Told(g))
    BY <1>7 DEF GroupIs, ExtensionIs
  <2>4. GroupIs(g, 10)'
    BY <1>2, <1>8, <1>9, <1>10, <2>1, <2>2, <2>3 DEF GroupIs, Told
  <2>5. Touches(g) /\ Quiet(g)
    BY <1>2, <2>1, Untouched DEF Quiet, life, Told
  <2>6. Passes(place[g], 10) /\ 10 \in 5..19 /\ (place[g] \in {7, 11} => 10 = place[g])
    BY <1>7 DEF Passes
  <2> QED BY <1>3, <1>4, <1>5, <2>4, <2>5, <2>6, QuietStep
<1>13. CASE ~Told(g)
  <2>1. /\ t_state'[g] = "NORMAL" /\ \A h \in Group : h # g => t_state'[h] = t_state[h]
        /\ \A x \in Extension :
              ext_state'[x] = IF x \in Extensions(g) THEN "ON_CONFIGURE" ELSE ext_state[x]
    BY <1>13 DEF StartLifeCycle, Told, Typed, GroupsTyped
  <2>2. \A x \in ExtOf(g) :
            \/ ext_state[x] = "INIT" /\ ext_state'[x] = "ON_CONFIGURE"
            \/ ext_state[x] = "failed" /\ ext_state'[x] = "failed"
    BY <1>11, <2>1 DEF Extensions
  <2>3. ThreadIs(10, runloop[g], "NORMAL", g \in threads, FALSE)
    BY <1>7, <1>13 DEF GroupIs, ThreadIs
  <2>4. \A x \in ExtOf(g) : ExtensionIs(10, ext_state'[x], "NORMAL", FALSE)
    BY <2>2 DEF ExtensionIs, Living, StartFlow, CloseFlow
  <2>5. (g \in is_close_triggered') = FALSE /\ Told(g) = FALSE
    BY <1>2, <1>13 DEF Told
  <2>6. GroupIs(g, 10)' <=>
            /\ EngineHas(g, 10, e_queue) /\ AddonHas(g, 10, addon)
            /\ ThreadHas(g, 10, t_queue'[g], g \in is_close_triggered') /\ ThreadOnce(g, t_queue'[g])
            /\ ThreadIs(10, runloop[g], t_state'[g], g \in threads, g \in is_close_triggered')
            /\ \A x \in ExtOf(g) : ExtensionIs(10, ext_state'[x], t_state'[g], g \in is_close_triggered')
    BY <1>2 DEF GroupIs, Told
  <2>7. GroupIs(g, 10)'
    BY <1>8, <1>9, <1>10, <2>1, <2>3, <2>4, <2>5, <2>6
  <2>8. ASSUME NEW x \in ExtOf(g) PROVE ExtensionHas(x, 10)'
    <3>1. /\ Answers(x, 9, t_queue[g], ext_state[x], addon)
          /\ LifeGoesOn(x, t_queue[g], ext_state[x], x \in path_timers, proxy[x])
          /\ x[1] = g
      BY <1>7, HasOf
    <3>2. LifeGoesOn(x, t_queue[g], ext_state'[x], x \in path_timers, proxy[x])
      BY <2>2, <3>1, LifeBegins
    <3>3. LifeGoesOn(x, t_queue'[g], ext_state'[x], x \in path_timers, proxy[x])
      BY <1>3, <1>6, <3>2, LifeApart
    <3>4. Answers(x, 10, t_queue'[g], ext_state'[x], addon)
      BY <1>6, <3>1 DEF Answers, Moves
    <3> QED BY <1>2, <3>1, <3>3, <3>4 DEF ExtensionHas
  <2>9. At(g, 10)'
    BY <2>7, <2>8, AtParts
  <2>10. Touches(g)
    <3>1. \A x \in Extension : x[1] # g => ext_state'[x] = ext_state[x]
      <4>1. \A x \in Extension : x[1] # g => x \notin Extensions(g)
        BY <1>11 DEF Extensions
      <4> QED BY <2>1, <4>1
    <3> QED BY <1>2, <2>1, <3>1 DEF Touches
  <2>11. /\ 9 \in 5..19 /\ 10 \in 5..19 /\ 9 <= 10 /\ 9 >= 9
         /\ <<"trigger_close", g>> \notin {}
    OBVIOUS
  <2>12. Told(g)' => Told(g)
    BY <1>2 DEF Told
  <2> QED BY <1>2, <1>3, <1>4, <1>5, <1>7, <2>9, <2>10, <2>11, <2>12, GroupStep
<1> QED BY <1>12, <1>13

-----------------------------------------------------------------------------
(* The steps that create and destroy the extensions.                       *)

ExtNames == {"ext_created", "ext_failed", "ext_destroyed"}

\* A queue keeps what it says of the group when tasks of its extensions come and go.
LEMMA GroupApart ==
    ASSUME NEW g, NEW q, NEW r, NEW took, NEW posts, Moves(q, r, took, posts),
           \A n \in GroupNames : <<n, g>> \notin took /\ <<n, g>> \notin posts
    PROVE  /\ \A p, told : ThreadHas(g, p, q, told) => ThreadHas(g, p, r, told)
           /\ ThreadOnce(g, q) => ThreadOnce(g, r)
<1>1. \A n \in GroupNames : /\ Has(r, <<n, g>>) => Has(q, <<n, g>>)
                            /\ Once(q, <<n, g>>) => Once(r, <<n, g>>)
  BY DEF Moves
<1>2. \A n, m \in GroupNames : Precedes(q, <<n, g>>, <<m, g>>) => Precedes(r, <<n, g>>, <<m, g>>)
  BY DEF Moves
<1>3. ASSUME NEW p, NEW told, ThreadHas(g, p, q, told) PROVE ThreadHas(g, p, r, told)
  <2>1. /\ Has(r, <<"start", g>>) => p = 5 /\ Precedes(r, <<"start", g>>, <<"trigger_close", g>>)
        /\ Has(r, <<"group_init_done", g>>) =>
              \/ p = 6
              \/ p = 13 /\ Precedes(r, <<"group_init_done", g>>, <<"group_deinit_done", g>>)
    BY <1>1, <1>2, <1>3 DEF ThreadHas, GroupNames
  <2>2. /\ Has(r, <<"start_life_cycle", g>>) => p = 9 /\ ~Has(r, <<"stop_life_cycle", g>>)
        /\ Has(r, <<"stop_life_cycle", g>>) => p = 9 /\ told
        /\ Has(r, <<"all_extensions_deleted", g>>) => p = 12
        /\ Has(r, <<"group_deinit_done", g>>) => p = 13
    BY <1>1, <1>3 DEF ThreadHas, GroupNames
  <2>3. /\ Has(r, <<"removed_from_engine", g>>) => p = 15
        /\ Has(r, <<"group_destroyed", g>>) => p = 17
        /\ Has(r, <<"trigger_close", g>>) => ~told /\ p \in 5..10
    BY <1>1, <1>3 DEF ThreadHas, GroupNames
  <2> QED BY <2>1, <2>2, <2>3 DEF ThreadHas
<1>4. ThreadOnce(g, q) => ThreadOnce(g, r)
  BY <1>1 DEF ThreadOnce, GroupNames
<1> QED BY <1>3, <1>4

\* A queue keeps what it says of the extension y when tasks of another one come and go.
LEMMA ExtensionsApart ==
    ASSUME NEW y, NEW q, NEW r, NEW took, NEW posts, Moves(q, r, took, posts),
           \A n \in ExtNames \union {"on_init", "on_start", "timers_closed", "proxy_deleted",
                                     "del_extension"} : <<n, y>> \notin took /\ <<n, y>> \notin posts
    PROVE  /\ \A s, timed, px : LifeGoesOn(y, q, s, timed, px) => LifeGoesOn(y, r, s, timed, px)
           /\ \A n \in ExtNames : /\ Has(r, <<n, y>>) => Has(q, <<n, y>>)
                                  /\ Once(q, <<n, y>>) => Once(r, <<n, y>>)
<1>1. \A n \in {"on_init", "on_start", "timers_closed", "proxy_deleted", "del_extension"} :
          <<n, y>> \notin took /\ <<n, y>> \notin posts
  OBVIOUS
<1>2. \A s, timed, px : LifeGoesOn(y, q, s, timed, px) => LifeGoesOn(y, r, s, timed, px)
  BY <1>1, LifeStays
<1>3. \A n \in ExtNames : /\ Has(r, <<n, y>>) => Has(q, <<n, y>>)
                          /\ Once(q, <<n, y>>) => Once(r, <<n, y>>)
  BY DEF Moves
<1> QED BY <1>2, <1>3

LEMMA ExtKinds ==
    ASSUME NEW g \in Group, NEW x \in ExtOf(g)
    PROVE  /\ \A n \in ExtNames : <<n, x>> \in ThreadTasks(g)
           /\ x \in Extension /\ x[1] = g
           /\ \A y \in ExtOf(g) : y \in Extension /\ y[1] = g
BY ThreadKinds, ExtGroup DEF ExtNames

LEMMA CreatedAnswer ==
    ASSUME NEW x, NEW q, NEW r, NEW requests, Answers(x, 7, q, "none", requests), NEW timed, NEW px,
           LifeGoesOn(x, q, "none", timed, px), NEW n \in {"ext_created", "ext_failed"},
           Moves(q, r, {<<n, x>>}, {})
    PROVE  \A b \in {7, 8} : \A s \in {"INIT", "failed"} :
               Answers(x, b, r, s, requests) /\ LifeGoesOn(x, r, s, timed, px)
<1>1. \A m \in {"on_init", "on_start", "timers_closed", "proxy_deleted", "del_extension"} :
          ~Has(q, <<m, x>>)
  BY DEF LifeGoesOn, StoppedBefore, Living, StartFlow
<1>2. \A m \in {"on_init", "on_start", "timers_closed", "proxy_deleted", "del_extension"} :
          ~Has(r, <<m, x>>) /\ (Once(q, <<m, x>>) => Once(r, <<m, x>>))
  BY <1>1 DEF Moves
<1>3. px \notin {"held", "released"}
  BY DEF LifeGoesOn, Living, StartFlow
<1>4. ASSUME NEW s \in {"INIT", "failed"} PROVE LifeGoesOn(x, r, s, timed, px)
  BY <1>2, <1>3 DEF LifeGoesOn
<1>5. /\ <<"create_ext", x>> \notin requests /\ <<"destroy_ext", x>> \notin requests
      /\ \A m \in ExtNames : ~Has(r, <<m, x>>)
      /\ \A m \in ExtNames : Once(q, <<m, x>>) => Once(r, <<m, x>>)
  BY DEF Answers, Moves, ExtNames
<1>6. ASSUME NEW s \in {"INIT", "failed"}, NEW b \in {7, 8} PROVE Answers(x, b, r, s, requests)
  BY <1>5 DEF Answers, ExtNames
<1> QED BY <1>4, <1>6

LEMMA ExtensionCreatedStep ==
    ASSUME Typed, NEW place \in [Group -> Places], Placed(place), NEW g \in Group, NEW x \in ExtOf(g),
           ExtensionCreated(g, x)
    PROVE  Advances
<1>1. /\ QueuesTyped /\ \A y \in Extension : ext_state[y] \in ExtStates
      /\ x \in Extension /\ x[1] = g /\ \A y \in ExtOf(g) : y \in Extension /\ y[1] = g
  BY ExtGroup DEF Typed, ExtsTyped
<1>2. /\ UNCHANGED <<runloop, t_state, is_close_triggered, path_timers, proxy, addon>>
      /\ UNCHANGED <<engine, extension_context, is_closing, cnt, start_graph, threads>>
  BY DEF ExtensionCreated, engine_side, context
<1>3. PICK n \in {"ext_created", "ext_failed"}, s \in {"INIT", "failed"} :
         ThreadTask(g, n, x, <<>>) /\ ext_state' = Enter(x, s)
  BY DEF ExtensionCreated, Created
<1>4. ThreadMoves(g, {<<n, x>>}, {})
  BY <1>1, <1>3, ThreadTakes
<1>5. Moves(t_queue[g], t_queue'[g], {<<n, x>>}, {})
  BY <1>4 DEF ThreadMoves
<1>6. ext_state'[x] = s /\ \A y \in Extension : y # x => ext_state'[y] = ext_state[y]
  BY <1>1, <1>3, Entered
<1>7. GroupIs(g, 7) /\ place[g] = 7 /\ Answers(x, 7, t_queue[g], ext_state[x], addon) /\ ext_state[x] = "none"
  <2>1. GroupIs(g, place[g]) /\ Answers(x, place[g], t_queue[g], ext_state[x], addon)
    BY GroupOf, HasOf
  <2> QED BY <1>5, <2>1 DEF Answers, Moves
<1>8. PICK b \in {7, 8}, posts \in SUBSET EngineTasksOf(g) :
         /\ EngineMoves({}, posts)
         /\ b = 7 => posts = {}
         /\ b = 8 => posts = {<<"find_info", g>>} /\ \A y \in ExtOf(g) : ext_state'[y] # "none"
  <2>1. <<"find_info", g>> \in EngineTasks /\ {<<"find_info", g>>} \in SUBSET EngineTasksOf(g)
    BY EngineKinds DEF EngineTasksOf, EngineNames
  <2>2. CASE \A y \in ExtOf(g) : ext_state'[y] # "none"
    <3>1. e_queue' = Append(e_queue, <<"find_info", g>>)
      BY <2>2 DEF ExtensionCreated, AllCreated
    <3>2. EngineMoves({}, {<<"find_info", g>>})
      BY <1>1, <2>1, <3>1, EnginePosts
    <3> QED BY <2>1, <2>2, <3>2
  <2>3. CASE ~\A y \in ExtOf(g) : ext_state'[y] # "none"
    <3>1. e_queue' = e_queue
      BY <2>3 DEF ExtensionCreated
    <3>2. EngineMoves({}, {})
      BY <1>1, <3>1, EnginePosts
    <3>3. {} \in SUBSET EngineTasksOf(g)
      OBVIOUS
    <3> QED BY <3>2, <3>3
  <2> QED BY <2>2, <2>3
<1>9. Moves(e_queue, e_queue', {}, posts)
  BY <1>8 DEF EngineMoves
<1>10. \A m \in GroupNames : <<m, g>> \notin {<<n, x>>} /\ <<m, g>> \notin {}
  BY DEF GroupNames
<1>11. GroupIs(g, b)'
  <2>1. ThreadHas(g, 7, t_queue'[g], Told(g)) /\ ThreadOnce(g, t_queue'[g])
    <3>1. ThreadHas(g, 7, t_queue[g], Told(g)) /\ ThreadOnce(g, t_queue[g])
      BY <1>7 DEF GroupIs
    <3> DEFINE took == {<<n, x>>}
               none == {}
    <3>2. Moves(t_queue[g], t_queue'[g], took, none) /\ \A m \in GroupNames : <<m, g>> \notin took /\ <<m, g>> \notin none
      BY <1>5, <1>10
    <3> HIDE DEF took, none
    <3> QED BY <3>1, <3>2, GroupApart
  <2>2. ThreadHas(g, b, t_queue'[g], Told(g))
    BY <2>1 DEF ThreadHas
  <2>3. EngineHas(g, b, e_queue')
    <3>1. EngineHas(g, 7, e_queue)
      BY <1>7 DEF GroupIs
    <3>2. CASE b = 7
      BY <1>8, <1>9, <3>1, <3>2 DEF EngineHas, Moves
    <3>3. CASE b = 8
      BY <1>8, <1>9, <3>1, <3>3 DEF EngineHas, Moves
    <3> QED BY <3>2, <3>3
  <2>4. AddonHas(g, b, addon) /\ ThreadIs(b, runloop[g], t_state[g], g \in threads, Told(g))
    BY <1>7 DEF GroupIs, AddonHas, ThreadIs
  <2>5. ASSUME NEW y \in ExtOf(g) PROVE ExtensionIs(b, ext_state'[y], t_state[g], Told(g))
    <3>1. CASE y = x
      BY <1>6, <3>1 DEF ExtensionIs, Living, StartFlow, CloseFlow
    <3>2. CASE y # x
      <4>1. ext_state'[y] = ext_state[y] /\ ExtensionIs(7, ext_state[y], t_state[g], Told(g))
        BY <1>1, <1>6, <1>7, <3>2 DEF GroupIs
      <4>2. b = 8 => ext_state'[y] # "none"
        BY <1>8
      <4> QED BY <4>1, <4>2 DEF ExtensionIs
    <3> QED BY <3>1, <3>2
  <2>6. GroupIs(g, b)' <=>
            /\ EngineHas(g, b, e_queue') /\ AddonHas(g, b, addon)
            /\ ThreadHas(g, b, t_queue'[g], Told(g)) /\ ThreadOnce(g, t_queue'[g])
            /\ ThreadIs(b, runloop[g], t_state[g], g \in threads, Told(g))
            /\ \A y \in ExtOf(g) : ExtensionIs(b, ext_state'[y], t_state[g], Told(g))
    BY <1>2 DEF GroupIs, Told
  <2> QED BY <2>1, <2>2, <2>3, <2>4, <2>5, <2>6
<1>12. ASSUME NEW y \in ExtOf(g) PROVE ExtensionHas(y, b)'
  <2>1. /\ Answers(y, 7, t_queue[g], ext_state[y], addon)
        /\ LifeGoesOn(y, t_queue[g], ext_state[y], y \in path_timers, proxy[y])
    BY <1>7, HasOf
  <2>2. /\ Answers(y, b, t_queue'[g], ext_state'[y], addon)
        /\ LifeGoesOn(y, t_queue'[g], ext_state'[y], y \in path_timers, proxy[y])
    <3>1. CASE y = x
      <4>1. /\ Answers(x, 7, t_queue[g], "none", addon)
            /\ LifeGoesOn(x, t_queue[g], "none", x \in path_timers, proxy[x])
        BY <1>7, <2>1, <3>1
      <4>2. /\ Answers(x, b, t_queue'[g], s, addon)
            /\ LifeGoesOn(x, t_queue'[g], s, x \in path_timers, proxy[x])
        BY <1>5, <4>1, CreatedAnswer
      <4> QED BY <1>6, <3>1, <4>2
    <3>2. CASE y # x
      <4>1. \A m : <<m, y>> \notin {<<n, x>>} /\ <<m, y>> \notin {}
        BY <3>2
      <4>2. ext_state'[y] = ext_state[y] /\ (b = 8 => ext_state'[y] # "none")
        BY <1>1, <1>6, <1>8, <3>2
      <4>3. LifeGoesOn(y, t_queue'[g], ext_state[y], y \in path_timers, proxy[y])
        BY <1>5, <2>1, <4>1, ExtensionsApart
      <4>4. \A m \in ExtNames : /\ Has(t_queue'[g], <<m, y>>) => Has(t_queue[g], <<m, y>>)
                                /\ Once(t_queue[g], <<m, y>>) => Once(t_queue'[g], <<m, y>>)
        BY <1>5, <4>1, ExtensionsApart
      <4>5. Answers(y, b, t_queue'[g], ext_state[y], addon)
        BY <2>1, <4>2, <4>4 DEF Answers, ExtNames
      <4> QED BY <4>2, <4>3, <4>5
    <3> QED BY <3>1, <3>2
  <2> QED BY <1>1, <1>2, <2>2 DEF ExtensionHas
<1>13. At(g, b)'
  BY <1>11, <1>12, AtParts
<1>14. Touches(g)
  <2>1. \A y \in Extension : y[1] # g => ext_state'[y] = ext_state[y]
    BY <1>1, <1>6
  <2> QED BY <1>2, <2>1 DEF Touches
<1>15. /\ 7 \in 5..19 /\ b \in 5..19 /\ 7 <= b /\ b <= 8 /\ 7 <= 8
       /\ <<"trigger_close", g>> \notin {}
  OBVIOUS
<1>16. Told(g)' => Told(g)
  BY <1>2 DEF Told
<1> QED BY <1>2, <1>4, <1>7, <1>8, <1>13, <1>14, <1>15, <1>16, GroupStep

LEMMA DeletedAnswer ==
    ASSUME NEW x, NEW q, NEW r, NEW s, NEW requests, Answers(x, 10, q, s, requests), NEW timed, NEW px,
           LifeGoesOn(x, q, s, timed, px), Moves(q, r, {<<"del_extension", x>>}, {})
    PROVE  /\ s = "ON_DEINIT_DONE"
           /\ LifeGoesOn(x, r, "deleted", timed, px)
           /\ \A m \in ExtNames : ~Has(r, <<m, x>>) /\ Once(r, <<m, x>>)
<1>1. Has(q, <<"del_extension", x>>) /\ ~Has(r, <<"del_extension", x>>)
  BY DEF LifeGoesOn, Moves
<1>2. s = "ON_DEINIT_DONE" /\ px \in {"never", "gone"}
  BY <1>1 DEF LifeGoesOn
<1>3. \A m \in {"on_init", "on_start", "timers_closed", "proxy_deleted"} : ~Has(q, <<m, x>>)
  BY <1>2 DEF LifeGoesOn, StoppedBefore
<1>4. /\ \A m \in {"on_init", "on_start", "timers_closed", "proxy_deleted"} :
            ~Has(r, <<m, x>>) /\ (Once(q, <<m, x>>) => Once(r, <<m, x>>))
      /\ Once(q, <<"del_extension", x>>) => Once(r, <<"del_extension", x>>)
  BY <1>3 DEF Moves
<1>5. LifeGoesOn(x, r, "deleted", timed, px)
  BY <1>1, <1>2, <1>4 DEF LifeGoesOn
<1>6. \A m \in ExtNames : ~Has(q, <<m, x>>) /\ Once(q, <<m, x>>)
  BY DEF Answers, ExtNames
<1>7. \A m \in ExtNames : ~Has(r, <<m, x>>) /\ Once(r, <<m, x>>)
  BY <1>6 DEF Moves
<1> QED BY <1>2, <1>5, <1>7

LEMMA DelExtensionStep ==
    ASSUME Typed, NEW place \in [Group -> Places], Placed(place), NEW g \in Group, NEW x \in ExtOf(g),
           DelExtension(g, x)
    PROVE  Advances
<1>1. /\ QueuesTyped /\ \A y \in Extension : ext_state[y] \in ExtStates
      /\ x \in Extension /\ x[1] = g /\ \A y \in ExtOf(g) : y \in Extension /\ y[1] = g
  BY ExtGroup DEF Typed, ExtsTyped
<1>2. /\ UNCHANGED <<e_queue, runloop, t_state, is_close_triggered, err_before_ready, path_timers, proxy>>
      /\ UNCHANGED <<engine, extension_context, is_closing, cnt, start_graph, threads>>
  BY DEF DelExtension, engine_side, context
<1>3. ThreadMoves(g, {<<"del_extension", x>>}, {})
  BY <1>1, ThreadTakes DEF DelExtension
<1>4. Moves(t_queue[g], t_queue'[g], {<<"del_extension", x>>}, {})
  BY <1>3 DEF ThreadMoves
<1>5. ext_state' = Enter(x, "deleted")
  BY DEF DelExtension
<1>6. ext_state'[x] = "deleted" /\ \A y \in Extension : y # x => ext_state'[y] = ext_state[y]
  BY <1>1, <1>5, Entered
<1>7. EngineMoves({}, {})
  BY <1>1, <1>2, EnginePosts
<1>8. ext_state[x] = "ON_DEINIT_DONE"
  <2>1. LifeGoesOn(x, t_queue[g], ext_state[x], x \in path_timers, proxy[x])
    BY HasOf
  <2> QED BY <1>4, <2>1 DEF LifeGoesOn, Moves
<1>9. GroupIs(g, 10) /\ place[g] = 10
  <2>1. GroupIs(g, place[g])
    BY GroupOf
  <2>2. place[g] = 10
    BY <1>8, <2>1 DEF GroupIs, ExtensionIs, Living
  <2> QED BY <2>1, <2>2
<1>10. Told(g) = TRUE /\ t_state[g] = "PREPARE_TO_CLOSE"
  <2>1. Told(g) = TRUE
    BY <1>8, <1>9 DEF GroupIs, ExtensionIs, CloseFlow, Told
  <2> QED BY <1>8, <1>9, <2>1 DEF GroupIs, ExtensionIs, ThreadIs, Living
<1>11. PICK b \in {10, 11} :
          /\ addon' = IF b = 11 THEN addon \union {<<"destroy_ext", y>> : y \in Extensions(g)} ELSE addon
          /\ b = 11 => \A y \in Extensions(g) : ext_state'[y] = "deleted"
  <2>1. CASE \A y \in Extensions(g) : ext_state'[y] = "deleted"
    <3>1. addon' = addon \union {<<"destroy_ext", y>> : y \in Extensions(g)}
      BY <2>1 DEF DelExtension
    <3> QED BY <2>1, <3>1
  <2>2. CASE ~\A y \in Extensions(g) : ext_state'[y] = "deleted"
    <3>1. addon' = addon
      BY <2>2 DEF DelExtension
    <3> QED BY <3>1
  <2> QED BY <2>1, <2>2
<1>12. \A y \in ExtOf(g) :
           /\ y \in Extensions(g) <=> ext_state[y] \notin {"none", "failed"}
           /\ y # x => ext_state'[y] = ext_state[y]
           /\ b = 11 /\ ext_state[y] \notin {"none", "failed"} => ext_state'[y] = "deleted"
  BY <1>1, <1>6, <1>11 DEF Extensions
<1>13. GroupIs(g, b)'
  <2>1. ThreadHas(g, 10, t_queue[g], TRUE) /\ ThreadOnce(g, t_queue[g])
    BY <1>9, <1>10 DEF GroupIs
  <2>2. ThreadHas(g, 10, t_queue'[g], TRUE) /\ ThreadOnce(g, t_queue'[g])
    <3> DEFINE took == {<<"del_extension", x>>}
               none == {}
    <3>1. /\ Moves(t_queue[g], t_queue'[g], took, none)
          /\ \A m \in GroupNames : <<m, g>> \notin took /\ <<m, g>> \notin none
      BY <1>4 DEF GroupNames
    <3> HIDE DEF took, none
    <3> QED BY <2>1, <3>1, GroupApart
  <2>3. ThreadHas(g, b, t_queue'[g], TRUE)
    BY <2>2 DEF ThreadHas
  <2>4. EngineHas(g, b, e_queue) /\ ThreadIs(b, runloop[g], t_state[g], g \in threads, TRUE)
    BY <1>9, <1>10 DEF GroupIs, EngineHas, ThreadIs
  <2>5. AddonHas(g, b, addon')
    BY <1>9, <1>11 DEF GroupIs, AddonHas
  <2>6. ASSUME NEW y \in ExtOf(g) PROVE ExtensionIs(b, ext_state'[y], "PREPARE_TO_CLOSE", TRUE)
    <3>1. ExtensionIs(10, ext_state[y], "PREPARE_TO_CLOSE", TRUE)
      BY <1>9, <1>10 DEF GroupIs
    <3>2. CASE ext_state'[y] = "deleted"
      BY <3>2 DEF ExtensionIs, Living, StartFlow
    <3>3. CASE ext_state'[y] # "deleted"
      <4>1. ext_state'[y] = ext_state[y] /\ (b = 10 \/ ext_state[y] \in {"none", "failed"})
        BY <1>6, <1>12, <3>3
      <4> QED BY <3>1, <4>1 DEF ExtensionIs, Living, StartFlow, CloseFlow
    <3> QED BY <3>2, <3>3
  <2>7. GroupIs(g, b)' <=>
            /\ EngineHas(g, b, e_queue) /\ AddonHas(g, b, addon')
            /\ ThreadHas(g, b, t_queue'[g], Told(g)) /\ ThreadOnce(g, t_queue'[g])
            /\ ThreadIs(b, runloop[g], t_state[g], g \in threads, Told(g))
            /\ \A y \in ExtOf(g) : ExtensionIs(b, ext_state'[y], t_state[g], Told(g))
    BY <1>2 DEF GroupIs, Told
  <2> QED BY <1>10, <2>2, <2>3, <2>4, <2>5, <2>6, <2>7
<1>14. ASSUME NEW y \in ExtOf(g) PROVE ExtensionHas(y, b)'
  <2>1. /\ Answers(y, 10, t_queue[g], ext_state[y], addon)
        /\ LifeGoesOn(y, t_queue[g], ext_state[y], y \in path_timers, proxy[y])
    BY <1>9, HasOf
  <2>2. /\ LifeGoesOn(y, t_queue'[g], ext_state'[y], y \in path_timers, proxy[y])
        /\ \A m \in ExtNames : ~Has(t_queue'[g], <<m, y>>) /\ Once(t_queue'[g], <<m, y>>)
    <3>1. CASE y = x
      BY <1>4, <1>6, <2>1, <3>1, DeletedAnswer
    <3>2. CASE y # x
      <4>1. \A m : <<m, y>> \notin {<<"del_extension", x>>} /\ <<m, y>> \notin {}
        BY <3>2
      <4>2. LifeGoesOn(y, t_queue'[g], ext_state[y], y \in path_timers, proxy[y])
        BY <1>4, <2>1, <4>1, ExtensionsApart
      <4>3. \A m \in ExtNames : /\ Has(t_queue'[g], <<m, y>>) => Has(t_queue[g], <<m, y>>)
                                /\ Once(t_queue[g], <<m, y>>) => Once(t_queue'[g], <<m, y>>)
        BY <1>4, <4>1, ExtensionsApart
      <4>4. \A m \in ExtNames : ~Has(t_queue[g], <<m, y>>) /\ Once(t_queue[g], <<m, y>>)
        BY <2>1 DEF Answers, ExtNames
      <4> QED BY <1>12, <3>2, <4>2, <4>3, <4>4
    <3> QED BY <3>1, <3>2
  <2>3. /\ <<"create_ext", y>> \notin addon'
        /\ <<"destroy_ext", y>> \in addon' => b = 11 /\ ext_state'[y] = "deleted"
    <3>1. <<"create_ext", y>> \notin addon /\ <<"destroy_ext", y>> \notin addon
      BY <2>1 DEF Answers
    <3>2. <<"destroy_ext", y>> \in addon' => b = 11 /\ y \in Extensions(g)
      BY <1>11, <3>1
    <3>3. <<"create_ext", y>> \notin addon'
      BY <1>11, <3>1
    <3> QED BY <1>11, <3>2, <3>3
  <2>4. Answers(y, b, t_queue'[g], ext_state'[y], addon')
    BY <2>2, <2>3 DEF Answers, ExtNames
  <2> QED BY <1>1, <1>2, <2>2, <2>4 DEF ExtensionHas
<1>15. At(g, b)'
  BY <1>13, <1>14, AtParts
<1>16. Touches(g)
  <2>1. \A y \in Extension : y[1] # g => ext_state'[y] = ext_state[y]
    BY <1>1, <1>6
  <2>2. \A r \in addon' : r \in addon \/ r \in RequestsOf(g)
    BY <1>11 DEF RequestsOf, Extensions
  <2> QED BY <1>2, <2>1, <2>2 DEF Touches
<1>17. /\ 10 \in 5..19 /\ b \in 5..19 /\ 10 <= b /\ 10 >= 9
       /\ <<"trigger_close", g>> \notin {} /\ {} \in SUBSET EngineTasksOf(g)
  OBVIOUS
<1>18. Told(g)' => Told(g)
  BY <1>2 DEF Told
<1> QED BY <1>2, <1>3, <1>7, <1>9, <1>15, <1>16, <1>17, <1>18, GroupStep

LEMMA DestroyedAnswer ==
    ASSUME NEW x, NEW q, NEW r, NEW requests, Answers(x, 11, q, "deleted", requests), NEW timed, NEW px,
           LifeGoesOn(x, q, "deleted", timed, px), NEW posts, Moves(q, r, {<<"ext_destroyed", x>>}, posts),
           \A n \in ExtNames \union {"on_init", "on_start", "timers_closed", "proxy_deleted",
                                     "del_extension"} : <<n, x>> \notin posts
    PROVE  \A b \in {11, 12} :
               Answers(x, b, r, "destroyed", requests) /\ LifeGoesOn(x, r, "destroyed", timed, px)
<1>1. \A m \in {"on_init", "on_start", "timers_closed", "proxy_deleted", "del_extension"} :
          ~Has(q, <<m, x>>)
  BY DEF LifeGoesOn, StoppedBefore, Living, StartFlow
<1>2. \A m \in {"on_init", "on_start", "timers_closed", "proxy_deleted", "del_extension"} :
          ~Has(r, <<m, x>>) /\ (Once(q, <<m, x>>) => Once(r, <<m, x>>))
  BY <1>1 DEF Moves
<1>3. px \notin {"held", "released"}
  BY DEF LifeGoesOn, Living, StartFlow
<1>4. LifeGoesOn(x, r, "destroyed", timed, px)
  BY <1>2, <1>3 DEF LifeGoesOn
<1>5. Has(q, <<"ext_destroyed", x>>) /\ ~Has(r, <<"ext_destroyed", x>>)
  BY DEF Answers, Moves, ExtNames
<1>6. /\ <<"create_ext", x>> \notin requests /\ <<"destroy_ext", x>> \notin requests
      /\ \A m \in {"ext_created", "ext_failed"} : ~Has(q, <<m, x>>)
      /\ \A m \in ExtNames : Once(q, <<m, x>>)
  BY <1>5 DEF Answers, ExtNames
<1>7. /\ \A m \in ExtNames : ~Has(r, <<m, x>>)
      /\ \A m \in ExtNames : Once(r, <<m, x>>)
  BY <1>5, <1>6 DEF Moves, ExtNames
<1>8. \A b \in {11, 12} : Answers(x, b, r, "destroyed", requests)
  BY <1>6, <1>7 DEF Answers, ExtNames
<1> QED BY <1>4, <1>8

LEMMA ExtensionDestroyedStep ==
    ASSUME Typed, NEW place \in [Group -> Places], Placed(place), NEW g \in Group, NEW x \in ExtOf(g),
           ExtensionDestroyed(g, x)
    PROVE  Advances
<1>1. /\ QueuesTyped /\ \A y \in Extension : ext_state[y] \in ExtStates
      /\ x \in Extension /\ x[1] = g /\ \A y \in ExtOf(g) : y \in Extension /\ y[1] = g
  BY ExtGroup DEF Typed, ExtsTyped
<1>2. /\ UNCHANGED <<e_queue, runloop, t_state, is_close_triggered, err_before_ready, path_timers,
                     proxy, addon>>
      /\ UNCHANGED <<engine, extension_context, is_closing, cnt, start_graph, threads>>
  BY DEF ExtensionDestroyed, engine_side, context
<1>3. PICK b \in {11, 12}, posts \in SUBSET ThreadTasks(g) :
         /\ ThreadMoves(g, {<<"ext_destroyed", x>>}, posts)
         /\ b = 11 => posts = {}
         /\ b = 12 => /\ posts = {<<"all_extensions_deleted", g>>}
                      /\ \A y \in Extensions(g) : ext_state'[y] = "destroyed"
  <2>1. <<"all_extensions_deleted", g>> \in ThreadTasks(g)
    BY GroupKinds DEF GroupNames
  <2>2. CASE \A y \in Extensions(g) : ext_state'[y] = "destroyed"
    <3>1. ThreadTask(g, "ext_destroyed", x, <<<<"all_extensions_deleted", g>>>>)
      BY <2>2 DEF ExtensionDestroyed
    <3>2. ThreadMoves(g, {<<"ext_destroyed", x>>}, {<<"all_extensions_deleted", g>>})
      BY <1>1, <2>1, <3>1, ThreadTakes
    <3>3. {<<"all_extensions_deleted", g>>} \in SUBSET ThreadTasks(g)
      BY <2>1
    <3> QED BY <2>2, <3>2, <3>3
  <2>3. CASE ~\A y \in Extensions(g) : ext_state'[y] = "destroyed"
    <3>1. ThreadTask(g, "ext_destroyed", x, <<>>)
      BY <2>3 DEF ExtensionDestroyed
    <3>2. ThreadMoves(g, {<<"ext_destroyed", x>>}, {})
      BY <1>1, <3>1, ThreadTakes
    <3> QED BY <3>2
  <2> QED BY <2>2, <2>3
<1>4. Moves(t_queue[g], t_queue'[g], {<<"ext_destroyed", x>>}, posts)
  BY <1>3 DEF ThreadMoves
<1>5. ext_state' = Enter(x, "destroyed")
  BY DEF ExtensionDestroyed
<1>6. ext_state'[x] = "destroyed" /\ \A y \in Extension : y # x => ext_state'[y] = ext_state[y]
  BY <1>1, <1>5, Entered
<1>7. EngineMoves({}, {})
  BY <1>1, <1>2, EnginePosts
<1>8. GroupIs(g, 11) /\ place[g] = 11 /\ ext_state[x] = "deleted"
  <2>1. GroupIs(g, place[g]) /\ Answers(x, place[g], t_queue[g], ext_state[x], addon)
    BY GroupOf, HasOf
  <2> QED BY <1>4, <2>1 DEF Answers, Moves
<1>9. is_closing /\ Told(g) = TRUE
  <2>1. Told(g)
    BY <1>8 DEF GroupIs, ThreadIs
  <2>2. is_closing
    BY <2>1 DEF Placed, EngineAt, ToldByEngine
  <2> QED BY <2>1, <2>2 DEF Told
<1>10. \A y \in ExtOf(g) :
           /\ y \in Extensions(g) <=> ext_state[y] \notin {"none", "failed"}
           /\ y # x => ext_state'[y] = ext_state[y]
           /\ b = 12 /\ ext_state[y] \notin {"none", "failed"} => ext_state'[y] = "destroyed"
  BY <1>1, <1>3, <1>6 DEF Extensions
<1>11. posts \in SUBSET {<<"all_extensions_deleted", g>>} /\ (posts # {} => b = 12)
  BY <1>3
<1>12. GroupIs(g, b)'
  <2>1. ThreadHas(g, 11, t_queue[g], TRUE) /\ ThreadOnce(g, t_queue[g])
    BY <1>8, <1>9 DEF GroupIs
  <2>2. \A m \in GroupNames : Has(t_queue'[g], <<m, g>>) =>
                                  Has(t_queue[g], <<m, g>>) \/ (m = "all_extensions_deleted" /\ b = 12)
    BY <1>4, <1>11 DEF Moves
  <2>3. ThreadHas(g, b, t_queue'[g], TRUE)
    BY <2>1, <2>2 DEF ThreadHas, GroupNames
  <2>4. ThreadOnce(g, t_queue'[g])
    <3>1. \A u \in posts : ~Has(t_queue[g], u)
      BY <1>11, <2>1 DEF ThreadHas
    <3> QED BY <1>4, <2>1, <3>1 DEF ThreadOnce, Moves
  <2>5. EngineHas(g, b, e_queue) /\ AddonHas(g, b, addon) /\ ThreadIs(b, runloop[g], t_state[g], g \in threads, TRUE)
    BY <1>8, <1>9 DEF GroupIs, EngineHas, AddonHas, ThreadIs
  <2>6. ASSUME NEW y \in ExtOf(g) PROVE ExtensionIs(b, ext_state'[y], t_state[g], TRUE)
    <3>1. ExtensionIs(11, ext_state[y], t_state[g], TRUE) /\ ExtensionIs(11, "deleted", t_state[g], TRUE)
      BY <1>8, <1>9 DEF GroupIs
    <3>2. CASE ext_state'[y] = "destroyed"
      BY <3>1, <3>2 DEF ExtensionIs, Living, StartFlow, CloseFlow
    <3>3. CASE ext_state'[y] # "destroyed"
      <4>1. ext_state'[y] = ext_state[y] /\ (b = 11 \/ ext_state[y] \in {"none", "failed"})
        BY <1>6, <1>10, <3>3
      <4> QED BY <3>1, <4>1 DEF ExtensionIs, Living, StartFlow, CloseFlow
    <3> QED BY <3>2, <3>3
  <2>7. GroupIs(g, b)' <=>
            /\ EngineHas(g, b, e_queue) /\ AddonHas(g, b, addon)
            /\ ThreadHas(g, b, t_queue'[g], Told(g)) /\ ThreadOnce(g, t_queue'[g])
            /\ ThreadIs(b, runloop[g], t_state[g], g \in threads, Told(g))
            /\ \A y \in ExtOf(g) : ExtensionIs(b, ext_state'[y], t_state[g], Told(g))
    BY <1>2 DEF GroupIs, Told
  <2> QED BY <1>9, <2>3, <2>4, <2>5, <2>6, <2>7
<1>13. \A y : \A n \in ExtNames \union {"on_init", "on_start", "timers_closed", "proxy_deleted",
                                       "del_extension"} : <<n, y>> \notin posts
  BY <1>11 DEF ExtNames
<1>14. ASSUME NEW y \in ExtOf(g) PROVE ExtensionHas(y, b)'
  <2>1. /\ Answers(y, 11, t_queue[g], ext_state[y], addon)
        /\ LifeGoesOn(y, t_queue[g], ext_state[y], y \in path_timers, proxy[y])
    BY <1>8, HasOf
  <2>2. /\ Answers(y, b, t_queue'[g], ext_state'[y], addon)
        /\ LifeGoesOn(y, t_queue'[g], ext_state'[y], y \in path_timers, proxy[y])
    <3>1. CASE y = x
      <4>1. /\ Answers(x, 11, t_queue[g], "deleted", addon)
            /\ LifeGoesOn(x, t_queue[g], "deleted", x \in path_timers, proxy[x])
        BY <1>8, <2>1, <3>1
      <4>2. /\ Answers(x, b, t_queue'[g], "destroyed", addon)
            /\ LifeGoesOn(x, t_queue'[g], "destroyed", x \in path_timers, proxy[x])
        BY <1>4, <1>13, <4>1, DestroyedAnswer
      <4> QED BY <1>6, <3>1, <4>2
    <3>2. CASE y # x
      <4>1. \A n \in ExtNames \union {"on_init", "on_start", "timers_closed", "proxy_deleted",
                                      "del_extension"} : <<n, y>> \notin {<<"ext_destroyed", x>>}
        BY <3>2
      <4>2. ext_state'[y] = ext_state[y]
        BY <1>10, <3>2
      <4>3. LifeGoesOn(y, t_queue'[g], ext_state[y], y \in path_timers, proxy[y])
        BY <1>4, <1>13, <2>1, <4>1, ExtensionsApart
      <4>4. \A m \in ExtNames : /\ Has(t_queue'[g], <<m, y>>) => Has(t_queue[g], <<m, y>>)
                                /\ Once(t_queue[g], <<m, y>>) => Once(t_queue'[g], <<m, y>>)
        BY <1>4, <1>13, <4>1, ExtensionsApart
      <4>5. b = 12 => ext_state[y] # "deleted"
        BY <1>10, <4>2
      <4>6. Answers(y, b, t_queue'[g], ext_state[y], addon)
        BY <2>1, <4>4, <4>5 DEF Answers, ExtNames
      <4> QED BY <4>2, <4>3, <4>6
    <3> QED BY <3>1, <3>2
  <2> QED BY <1>1, <1>2, <2>2 DEF ExtensionHas
<1>15. At(g, b)'
  BY <1>12, <1>14, AtParts
<1>16. Touches(g)
  <2>1. \A y \in Extension : y[1] # g => ext_state'[y] = ext_state[y]
    BY <1>1, <1>6
  <2> QED BY <1>2, <2>1 DEF Touches
<1>17. /\ 11 \in 5..19 /\ b \in 5..19 /\ 11 <= b /\ 11 >= 9 /\ {} \in SUBSET EngineTasksOf(g)
       /\ <<"trigger_close", g>> \notin posts
  BY <1>11
<1>18. err_before_ready' = err_before_ready
  BY <1>2
<1> QED BY <1>2, <1>3, <1>7, <1>8, <1>9, <1>15, <1>16, <1>17, <1>18, GroupStep

\* The app's thread has created or destroyed an extension.
LEMMA Replied ==
    ASSUME NEW x, NEW p, NEW q, NEW r, NEW s, NEW requests, Answers(x, p, q, s, requests),
           NEW n, NEW m, \/ n = "create_ext" /\ m \in {"ext_created", "ext_failed"}
                         \/ n = "destroy_ext" /\ m = "ext_destroyed",
           <<n, x>> \in requests, Moves(q, r, {}, {<<m, x>>})
    PROVE  Answers(x, p, r, s, requests \ {<<n, x>>})
<1>1. /\ ~Has(q, <<m, x>>)
      /\ \A k \in ExtNames : Has(r, <<k, x>>) => Has(q, <<k, x>>) \/ k = m
      /\ \A k \in ExtNames : Once(q, <<k, x>>) => Once(r, <<k, x>>)
  BY DEF Answers, Moves
<1>2. CASE n = "create_ext"
  BY <1>1, <1>2 DEF Answers, ExtNames
<1>3. CASE n = "destroy_ext"
  BY <1>1, <1>3 DEF Answers, ExtNames
<1> QED BY <1>2, <1>3

LEMMA ReplyStep ==
    ASSUME Typed, NEW place \in [Group -> Places], Placed(place), NEW g \in Group, NEW x \in ExtOf(g),
           NEW n, NEW m, \/ n = "create_ext" /\ m \in {"ext_created", "ext_failed"}
                         \/ n = "destroy_ext" /\ m = "ext_destroyed",
           ThreadReply(g, <<n, x>>, <<m, x>>),
           UNCHANGED <<engine, context, close_requests, runloop, t_state, is_close_triggered,
                       err_before_ready, life>>
    PROVE  Advances
<1> DEFINE p == place[g]
           request == <<n, x>>
<1>1. /\ QueuesTyped
      /\ x \in Extension /\ x[1] = g /\ \A y \in ExtOf(g) : y \in Extension /\ y[1] = g
      /\ m \in ExtNames
  BY ExtGroup DEF Typed, ExtNames
<1>2. /\ UNCHANGED <<e_queue, runloop, t_state, is_close_triggered, err_before_ready, ext_state,
                     path_timers, proxy>>
      /\ UNCHANGED <<engine, extension_context, is_closing, cnt, start_graph, threads>>
      /\ request \in addon /\ addon' = addon \ {request}
  BY DEF ThreadReply, life, context
<1>3. <<m, x>> \in ThreadTasks(g)
  BY <1>1, ExtKinds
<1>4. ThreadMoves(g, {}, {<<m, x>>})
  BY <1>1, <1>3, ThreadPosts DEF ThreadReply
<1>5. Moves(t_queue[g], t_queue'[g], {}, {<<m, x>>})
  BY <1>4 DEF ThreadMoves
<1>6. EngineMoves({}, {})
  BY <1>1, <1>2, EnginePosts
<1>7. GroupIs(g, p) /\ p \in {7, 11}
  <2>1. GroupIs(g, place[g]) /\ Answers(x, place[g], t_queue[g], ext_state[x], addon)
    BY GroupOf, HasOf
  <2> QED BY <1>2, <2>1 DEF Answers
<1> HIDE DEF p, request
<1>8. GroupIs(g, p)'
  <2>1. ThreadHas(g, p, t_queue[g], Told(g)) /\ ThreadOnce(g, t_queue[g])
    BY <1>7 DEF GroupIs
  <2>2. ThreadHas(g, p, t_queue'[g], Told(g)) /\ ThreadOnce(g, t_queue'[g])
    <3> DEFINE posts == {<<m, x>>}
               none == {}
    <3>1. /\ Moves(t_queue[g], t_queue'[g], none, posts)
          /\ \A k \in GroupNames : <<k, g>> \notin none /\ <<k, g>> \notin posts
      BY <1>1, <1>5 DEF GroupNames, ExtNames
    <3> HIDE DEF posts, none
    <3> QED BY <2>1, <3>1, GroupApart
  <2>3. AddonHas(g, p, addon')
    BY <1>2, <1>7 DEF GroupIs, AddonHas
  <2> QED BY <1>2, <1>7, <2>2, <2>3 DEF GroupIs, Told, p
<1>9. ASSUME NEW y \in ExtOf(g) PROVE ExtensionHas(y, p)'
  <2>1. /\ Answers(y, p, t_queue[g], ext_state[y], addon)
        /\ LifeGoesOn(y, t_queue[g], ext_state[y], y \in path_timers, proxy[y])
    BY HasOf DEF p
  <2>2. \A k \in {"on_init", "on_start", "timers_closed", "proxy_deleted", "del_extension"} :
            <<k, y>> \notin {} /\ <<k, y>> \notin {<<m, x>>}
    BY <1>1 DEF ExtNames
  <2>3. LifeGoesOn(y, t_queue'[g], ext_state[y], y \in path_timers, proxy[y])
    <3> DEFINE posts == {<<m, x>>}
               none == {}
    <3>1. /\ Moves(t_queue[g], t_queue'[g], none, posts)
          /\ \A k \in {"on_init", "on_start", "timers_closed", "proxy_deleted", "del_extension"} :
                <<k, y>> \notin none /\ <<k, y>> \notin posts
      BY <1>5, <2>2
    <3> HIDE DEF posts, none
    <3> QED BY <2>1, <3>1, LifeStays
  <2>4. Answers(y, p, t_queue'[g], ext_state[y], addon')
    <3>1. CASE y = x
      BY <1>2, <1>5, <2>1, <3>1, Replied DEF request
    <3>2. CASE y # x
      <4>1. \A k \in ExtNames : /\ Has(t_queue'[g], <<k, y>>) => Has(t_queue[g], <<k, y>>)
                                /\ Once(t_queue[g], <<k, y>>) => Once(t_queue'[g], <<k, y>>)
        BY <1>5, <3>2 DEF Moves
      <4>2. \A r : r \in addon' => r \in addon
        BY <1>2
      <4> QED BY <2>1, <4>1, <4>2 DEF Answers, ExtNames
    <3> QED BY <3>1, <3>2
  <2> QED BY <1>1, <1>2, <2>3, <2>4 DEF ExtensionHas, p
<1>10. At(g, p)'
  BY <1>8, <1>9, AtParts DEF p
<1>11. Touches(g)
  <2>1. \A r \in addon' : r \in addon
    BY <1>2
  <2> QED BY <1>2, <2>1 DEF Touches
<1>12. /\ p \in 5..19 /\ p <= p /\ (p >= 9 \/ p <= 8 \/ is_closing) /\ {} \in SUBSET EngineTasksOf(g)
       /\ <<"trigger_close", g>> \notin {<<m, x>>}
  BY <1>1, <1>7 DEF ExtNames
<1>13. err_before_ready' = err_before_ready /\ (Told(g)' => Told(g)) /\ place[g] = p
  BY <1>2 DEF Told, p
<1> QED BY <1>2, <1>4, <1>6, <1>10, <1>11, <1>12, <1>13, GroupStep

LEMMA GroupReplyStep ==
    ASSUME Typed, NEW place \in [Group -> Places], Placed(place), NEW g \in Group,
           ThreadReply(g, <<"destroy_group", g>>, <<"group_destroyed", g>>),
           UNCHANGED <<engine, context, close_requests, runloop, t_state, is_close_triggered,
                       err_before_ready, life>>
    PROVE  Advances
<1>1. QueuesTyped
  BY DEF Typed
<1>2. /\ UNCHANGED <<e_queue, runloop, t_state, is_close_triggered, err_before_ready, life>>
      /\ UNCHANGED <<engine, extension_context, is_closing, cnt, start_graph, threads>>
      /\ <<"destroy_group", g>> \in addon /\ addon' = addon \ {<<"destroy_group", g>>}
  BY DEF ThreadReply, context
<1>3. /\ <<"group_destroyed", g>> \in ThreadTasks(g)
      /\ {} \in SUBSET GroupTasks(g)
      /\ {<<"group_destroyed", g>>} \in SUBSET (GroupTasks(g) \ {<<"trigger_close", g>>})
      /\ {} \in SUBSET EngineTasksOf(g)
  BY GroupKinds DEF GroupNames
<1>4. ThreadMoves(g, {}, {<<"group_destroyed", g>>})
  BY <1>1, <1>3, ThreadPosts DEF ThreadReply
<1>5. EngineMoves({}, {})
  BY <1>1, <1>2, EnginePosts
<1>6. Moves(t_queue[g], t_queue'[g], {}, {<<"group_destroyed", g>>})
  BY <1>4 DEF ThreadMoves
<1>7. GroupIs(g, place[g]) /\ place[g] = 16
  BY <1>2, GroupOf DEF GroupIs, AddonHas
<1>8. GroupIs(g, 17)'
  <2>1. ThreadHas(g, 17, t_queue'[g], Told(g))
    BY <1>6, <1>7 DEF GroupIs, ThreadHas, ThreadOnce, Moves
  <2>2. ThreadOnce(g, t_queue'[g])
    BY <1>6, <1>7 DEF GroupIs, ThreadHas, ThreadOnce, Moves
  <2>3. AddonHas(g, 17, addon')
    BY <1>2, <1>7 DEF GroupIs, AddonHas
  <2>4. /\ EngineHas(g, 17, e_queue)
        /\ ThreadIs(17, runloop[g], t_state[g], g \in threads, Told(g))
        /\ \A x \in ExtOf(g) : ExtensionIs(17, ext_state[x], t_state[g], Told(g))
    BY <1>7 DEF GroupIs, EngineHas, ThreadIs, ExtensionIs
  <2> QED BY <1>2, <2>1, <2>2, <2>3, <2>4 DEF GroupIs, Told, life
<1>9. Touches(g) /\ Quiet(g)
  <2>1. \A r : r \in addon' => r \in addon
    BY <1>2
  <2>2. Quiet(g)
    BY <1>2, <2>1 DEF Quiet, Told
  <2> QED BY <1>2, <2>1, <2>2, Untouched DEF Told
<1>10. Passes(place[g], 17) /\ 17 \in 5..19 /\ (place[g] \in {7, 11} => 17 = place[g])
  BY <1>7 DEF Passes
<1> QED BY <1>3, <1>4, <1>5, <1>8, <1>9, <1>10, QuietStep

-----------------------------------------------------------------------------
(* The steps of the engine.                                                *)

LEMMA AllSpared ==
    ASSUME NEW place \in [Group -> Places], Placed(place), \A h \in Group : Spares(h), EngineAt(place)'
    PROVE  \E next \in [Group -> Places] : Placed(next)'
<1>1. ASSUME NEW h \in Group PROVE At(h, place[h])'
  <2>1. At(h, place[h]) /\ Spares(h) /\ place[h] \in Places
    BY DEF Placed
  <2> QED BY <2>1, Spared
<1>2. Placed(place)'
  BY <1>1 DEF Placed
<1> QED BY <1>2

\* As long as the engine is not closing, no thread is beyond its extensions' life.
LEMMA NotYetClosing ==
    ASSUME NEW place \in [Group -> Places], Placed(place), ~is_closing
    PROVE  \A h \in Group : place[h] <= 10 /\ (place[h] > 4 => h \in threads)
<1> SUFFICES ASSUME NEW h \in Group PROVE place[h] <= 10 /\ (place[h] > 4 => h \in threads)
  OBVIOUS
<1>1. ~Told(h) /\ place[h] \in Places
  BY DEF Placed, EngineAt, ToldByEngine
<1>2. ThreadIs(place[h], runloop[h], t_state[h], h \in threads, Told(h))
  BY GroupOf DEF GroupIs
<1>3. place[h] <= 10
  BY <1>1, <1>2 DEF ThreadIs, Places
<1> QED BY <1>1, <1>2, <1>3 DEF ThreadIs, Places

LEMMA CloseEngineStep ==
    ASSUME Typed, NEW place \in [Group -> Places], Placed(place), CloseEngine
    PROVE  Advances
<1>1. QueuesTyped /\ <<"close", 0>> \in EngineTasks
  BY EngineKinds DEF Typed
<1>2. /\ UNCHANGED <<engine, extension_context, is_closing, threads, cnt, start_graph>>
      /\ UNCHANGED <<runloop, t_queue, t_state, is_close_triggered, err_before_ready, ext_state,
                     path_timers, proxy, addon>>
  BY DEF CloseEngine, context, life
<1>3. EngineMoves({}, {<<"close", 0>>})
  BY <1>1, EnginePosts DEF CloseEngine
<1>4. Moves(e_queue, e_queue', {}, {<<"close", 0>>})
  BY <1>3 DEF EngineMoves
<1>5. QueuesTyped'
  BY <1>1, <1>2, <1>3, EngineMovesTyped
<1>6. \A h \in Group : Spares(h)
  <2>1. \A h \in Group : \A n \in EngineNames : /\ Has(e_queue', <<n, h>>) => Has(e_queue, <<n, h>>)
                                                /\ Once(e_queue, <<n, h>>) => Once(e_queue', <<n, h>>)
    <3>1. \A h \in Group : \A n \in EngineNames : <<n, h>> \notin {<<"close", 0>>}
      BY DEF EngineNames
    <3> QED BY <1>4, <3>1 DEF Moves
  <2> QED BY <1>2, <2>1 DEF Spares
<1>7. /\ StartsTogether(place) /\ ClosesAll(place) /\ ToldByEngine /\ CountsAgree(place)
      /\ AnswerIsRight(place)
  BY DEF Placed, EngineAt
<1>8. /\ Has(e_queue', <<"start_graph", 0>>) => Has(e_queue, <<"start_graph", 0>>)
      /\ Once(e_queue, <<"start_graph", 0>>) => Once(e_queue', <<"start_graph", 0>>)
  BY <1>4 DEF Moves
<1>9. StartsTogether(place)'
  BY <1>2, <1>7, <1>8 DEF StartsTogether
<1>10. ClosesAll(place)'
  <2>1. \/ \A g \in Group : place[g] > 4
        \/ \A g \in Group : place[g] = 1
    <3>1. CASE CloseFrom = "started"
      <4>1. extension_context = "none" \/ \A g \in Group : runloop[g] # "none"
        BY <3>1 DEF CloseEngine, Reached
      <4>2. ASSUME NEW g \in Group, runloop[g] # "none" PROVE place[g] > 4
        <5>1. place[g] \in Places /\ ThreadIs(place[g], runloop[g], t_state[g], g \in threads, Told(g))
          BY GroupOf DEF GroupIs
        <5> QED BY <4>2, <5>1 DEF ThreadIs, Places
      <4> QED BY <1>7, <4>1, <4>2 DEF StartsTogether
    <3>2. CASE CloseFrom = "answered"
      BY <1>7, <3>2 DEF CloseEngine, Reached, StartsTogether
    <3> QED BY <3>1, <3>2, GraphLifecycleAssumption DEF Stages
  <2>2. ASSUME NEW g \in Group, place[g] = 1
        PROVE  place[g] <= 3 /\ Precedes(e_queue', <<"close", 0>>, <<"group_created", g>>)
    <3>1. ~Has(e_queue, <<"group_created", g>>)
      <4>1. EngineHas(g, place[g], e_queue)
        BY GroupOf DEF GroupIs
      <4> QED BY <2>2, <4>1 DEF EngineHas
    <3>2. ~Has(e_queue', <<"group_created", g>>)
      BY <1>4, <3>1 DEF Moves
    <3> QED BY <2>2, <3>2 DEF Precedes, Has
  <2> QED BY <1>2, <1>7, <2>1, <2>2 DEF ClosesAll
<1>11. ToldByEngine' /\ CountsAgree(place)'
  BY <1>2, <1>7 DEF ToldByEngine, Told, CountsAgree
<1>12. AnswerIsRight(place)'
  <2>1. CloseFrom = "answered" => start_graph \in {"ok", "error"}
    BY DEF CloseEngine, Reached
  <2> QED BY <1>2, <1>7, <2>1 DEF AnswerIsRight
<1>13. EngineAt(place)'
  BY <1>9, <1>10, <1>11, <1>12 DEF EngineAt
<1> QED BY <1>5, <1>6, <1>13, AllSpared DEF Advances

\* A close that comes again, or finds no threads.
LEMMA CloseNobodyStep ==
    ASSUME Typed, NEW place \in [Group -> Places], Placed(place), CloseTask, CloseAgain \/ CloseAtOnce
    PROVE  Advances
<1>1. QueuesTyped /\ start_graph \in {"none", "pending", "ok", "error"} /\ engine = "running"
  BY DEF Typed, EngineTyped, CloseTask, EngineTask
<1>2. /\ UNCHANGED <<threads, cnt, start_graph>>
      /\ UNCHANGED <<runloop, t_queue, t_state, is_close_triggered, err_before_ready, ext_state,
                     path_timers, proxy, addon>>
  BY DEF CloseTask, CloseAgain, CloseAtOnce, life
<1>3. EngineMoves({<<"close", 0>>}, {})
  BY <1>1, EngineTakes DEF CloseTask
<1>4. Moves(e_queue, e_queue', {<<"close", 0>>}, {})
  BY <1>3 DEF EngineMoves
<1>5. QueuesTyped'
  BY <1>1, <1>2, <1>3, EngineMovesTyped
<1>6. \A h \in Group : Spares(h)
  <2>1. \A h \in Group : \A n \in EngineNames : /\ Has(e_queue', <<n, h>>) => Has(e_queue, <<n, h>>)
                                                /\ Once(e_queue, <<n, h>>) => Once(e_queue', <<n, h>>)
    BY <1>4 DEF Moves
  <2> QED BY <1>2, <2>1 DEF Spares
<1>7. /\ StartsTogether(place) /\ ClosesAll(place) /\ ToldByEngine /\ CountsAgree(place)
      /\ AnswerIsRight(place)
  BY DEF Placed, EngineAt
<1>8. /\ Has(e_queue', <<"start_graph", 0>>) => Has(e_queue, <<"start_graph", 0>>)
      /\ Once(e_queue, <<"start_graph", 0>>) => Once(e_queue', <<"start_graph", 0>>)
      /\ Has(e_queue, <<"close", 0>>)
  BY <1>4 DEF Moves
<1>9. extension_context' = "none" => extension_context = "none"
  BY DEF CloseAgain, CloseAtOnce
<1>10. StartsTogether(place)'
  BY <1>2, <1>7, <1>8, <1>9 DEF StartsTogether
<1>11. ClosesAll(place)'
  <2>1. CASE CloseAgain
    <3>1. \A g \in Group : place[g] > 4
      BY <1>1, <1>7, <2>1 DEF ClosesAll, CloseAgain
    <3> QED BY <1>2, <1>7, <2>1, <3>1 DEF ClosesAll, CloseAgain
  <2>2. CASE CloseAtOnce
    <3>1. ~is_closing /\ threads = {} /\ is_closing' /\ engine' = "closed"
      BY <2>2 DEF CloseAtOnce
    <3>2. \A g \in Group : ~(place[g] > 4)
      BY <3>1, NotYetClosing
    <3>3. \A g \in Group : place[g] <= 3
      BY <1>1, <1>7, <1>8, <3>2 DEF ClosesAll
    <3> QED BY <3>1, <3>3 DEF ClosesAll
  <2> QED BY <2>1, <2>2
<1>12. is_closing'
  BY DEF CloseAgain, CloseAtOnce
<1>13. ToldByEngine'
  BY <1>12 DEF ToldByEngine
<1>14. CountsAgree(place)'
  BY <1>2, <1>7, <1>12 DEF CountsAgree
<1>15. AnswerIsRight(place)'
  <2>1. CloseFrom = "answered" => start_graph \in {"ok", "error"}
    BY <1>1, <1>7, <1>8 DEF AnswerIsRight
  <2> QED BY <1>2, <1>7, <2>1 DEF AnswerIsRight
<1>16. EngineAt(place)'
  BY <1>10, <1>11, <1>13, <1>14, <1>15 DEF EngineAt
<1> QED BY <1>5, <1>6, <1>16, AllSpared DEF Advances

\* The extensions of g, when only tasks of the group itself come and go.
LEMMA ExtensionsKeep ==
    ASSUME NEW place \in [Group -> Places], Placed(place), NEW g \in Group, place[g] \notin {7, 11},
           NEW b, UNCHANGED life, NEW tt \in SUBSET GroupTasks(g), NEW tp \in SUBSET GroupTasks(g),
           Moves(t_queue[g], t_queue'[g], tt, tp),
           \A x \in ExtOf(g) : \A n \in {"create_ext", "destroy_ext"} : <<n, x>> \in addon' => <<n, x>> \in addon
    PROVE  \A x \in ExtOf(g) : ExtensionHas(x, b)'
<1> SUFFICES ASSUME NEW x \in ExtOf(g) PROVE ExtensionHas(x, b)'
  OBVIOUS
<1>1. /\ Answers(x, place[g], t_queue[g], ext_state[x], addon)
      /\ LifeGoesOn(x, t_queue[g], ext_state[x], x \in path_timers, proxy[x])
      /\ x[1] = g
  BY HasOf
<1>2. LifeGoesOn(x, t_queue'[g], ext_state[x], x \in path_timers, proxy[x])
  BY <1>1, LifeApart
<1>3. \A n \in ExtNames : <<n, x>> \notin tp
  BY DEF GroupTasks, GroupNames, ExtNames
<1>4. \A n \in ExtNames : /\ Has(t_queue'[g], <<n, x>>) => Has(t_queue[g], <<n, x>>)
                          /\ Once(t_queue[g], <<n, x>>) => Once(t_queue'[g], <<n, x>>)
  BY <1>3 DEF Moves
<1>5. Answers(x, b, t_queue'[g], ext_state[x], addon')
  BY <1>1, <1>4 DEF Answers, ExtNames
<1> QED BY <1>1, <1>2, <1>5 DEF ExtensionHas, life

\* The app's thread has created the instance of the group g.
LEMMA GroupInstanceStep ==
    ASSUME Typed, NEW place \in [Group -> Places], Placed(place), NEW g \in Group, GroupInstance(g),
           UNCHANGED <<engine, context, close_requests, runloop, t_state, is_close_triggered,
                       err_before_ready, life>>
    PROVE  Advances
<1> DEFINE next == [place EXCEPT ![g] = 3]
<1>1. QueuesTyped
  BY DEF Typed
<1>2. /\ UNCHANGED <<runloop, t_queue, t_state, is_close_triggered, err_before_ready, life>>
      /\ UNCHANGED <<engine, extension_context, is_closing, cnt, start_graph, threads>>
      /\ <<"create_group", g>> \in addon /\ addon' = addon \ {<<"create_group", g>>}
  BY DEF GroupInstance, context
<1>3. <<"group_created", g>> \in EngineTasks
  BY EngineKinds
<1>4. EngineMoves({}, {<<"group_created", g>>})
  BY <1>1, <1>3, EnginePosts DEF GroupInstance
<1>5. Moves(e_queue, e_queue', {}, {<<"group_created", g>>})
  BY <1>4 DEF EngineMoves
<1>6. QueuesTyped' /\ ThreadMoves(g, {}, {})
  BY <1>1, <1>2, <1>4, EngineMovesTyped, ThreadPosts
<1>7. GroupIs(g, 2) /\ place[g] = 2
  BY <1>2, GroupOf DEF GroupIs, AddonHas
<1>8. next \in [Group -> Places] /\ next[g] = 3 /\ \A h \in Group : h # g => next[h] = place[h]
  BY DEF Places
<1>9. At(g, 3)'
  <2>1. EngineHas(g, 3, e_queue')
    BY <1>5, <1>7 DEF GroupIs, EngineHas, Moves
  <2>2. AddonHas(g, 3, addon')
    BY <1>2, <1>7 DEF GroupIs, AddonHas
  <2>3. /\ ThreadHas(g, 3, t_queue[g], Told(g)) /\ ThreadOnce(g, t_queue[g])
        /\ ThreadIs(3, runloop[g], t_state[g], g \in threads, Told(g))
        /\ \A x \in ExtOf(g) : ExtensionIs(3, ext_state[x], t_state[g], Told(g))
    BY <1>7 DEF GroupIs, ThreadHas, ThreadIs, ExtensionIs
  <2>4. GroupIs(g, 3)'
    BY <1>2, <2>1, <2>2, <2>3 DEF GroupIs, Told, life
  <2>5. \A x \in ExtOf(g) : ExtensionHas(x, 3)'
    <3>1. Moves(t_queue[g], t_queue'[g], {}, {})
      BY <1>6 DEF ThreadMoves
    <3>2. {} \in SUBSET GroupTasks(g) /\ place[g] \notin {7, 11}
      BY <1>7
    <3>3. \A r : r \in addon' => r \in addon
      BY <1>2
    <3> QED BY <1>2, <3>1, <3>2, <3>3, ExtensionsKeep
  <2> QED BY <2>4, <2>5, AtParts
<1>10. \A h \in Group : h # g => Spares(h)
  <2>1. {<<"group_created", g>>} \in SUBSET (EngineTasksOf(g) \union {<<"close", 0>>})
    BY DEF EngineTasksOf, EngineNames
  <2>2. \A r \in addon' : r \in addon
    BY <1>2
  <2>3. Touches(g)
    BY <1>2, <2>2, Untouched DEF Told
  <2> QED BY <1>4, <1>6, <2>1, <2>3, TouchesOne
<1>11. /\ StartsTogether(place) /\ ClosesAll(place) /\ ToldByEngine /\ CountsAgree(place)
       /\ AnswerIsRight(place)
  BY DEF Placed, EngineAt
<1>12. /\ Has(e_queue', <<"start_graph", 0>>) => Has(e_queue, <<"start_graph", 0>>)
       /\ Once(e_queue, <<"start_graph", 0>>) => Once(e_queue', <<"start_graph", 0>>)
       /\ Has(e_queue', <<"close", 0>>) => Has(e_queue, <<"close", 0>>)
       /\ \A h \in Group : Has(e_queue, <<"close", 0>>) /\ Precedes(e_queue, <<"close", 0>>, <<"group_created", h>>)
                               => Precedes(e_queue', <<"close", 0>>, <<"group_created", h>>)
  BY <1>5 DEF Moves
<1> HIDE DEF next
<1>13. EngineAt(next)'
  <2>1. \A h \in Group : place[h] <= 4 /\ next[h] <= 4
    BY <1>7, <1>8, <1>11 DEF StartsTogether
  <2>2. start_graph \notin {"ok", "error"}
    BY <1>7, <1>11 DEF StartsTogether
  <2>3. StartsTogether(next)'
    BY <1>2, <1>7, <1>11, <1>12, <2>1, <2>2 DEF StartsTogether
  <2>4. ClosesAll(next)'
    <3>1. /\ engine = "running" /\ Has(e_queue', <<"close", 0>>) =>
                \A h \in Group : /\ place[h] <= 3
                                 /\ Precedes(e_queue', <<"close", 0>>, <<"group_created", h>>)
          /\ ~(engine = "running" /\ is_closing)
          /\ engine = "closed" => is_closing /\ \A h \in Group : place[h] <= 3
      BY <1>7, <1>11, <1>12 DEF ClosesAll
    <3>2. \A h \in Group : place[h] <= 3 => next[h] <= 3
      BY <1>8
    <3> QED BY <1>2, <1>11, <3>1, <3>2 DEF ClosesAll
  <2>5. ToldByEngine'
    BY <1>2, <1>11 DEF ToldByEngine, Told
  <2>6. Gone(next) = Gone(place) /\ Ready(next) = Ready(place)
    BY <1>8, <2>1 DEF Gone, Ready, Places
  <2>7. CountsAgree(next)'
    BY <1>2, <1>11, <2>6 DEF CountsAgree
  <2>8. AnswerIsRight(next)'
    BY <1>2, <1>11, <1>12, <2>2 DEF AnswerIsRight
  <2> QED BY <2>3, <2>4, <2>5, <2>7, <2>8 DEF EngineAt
<1>14. 3 \in Places
  BY DEF Places
<1> QED BY <1>6, <1>9, <1>10, <1>13, <1>14, GroupMoves DEF next, Advances

LEMMA AddonDoneStep ==
    ASSUME Typed, NEW place \in [Group -> Places], Placed(place), NEW g \in Group, AddonDone(g)
    PROVE  Advances
<1>1. UNCHANGED <<engine, context, close_requests, runloop, t_state, is_close_triggered,
                  err_before_ready, life>>
  BY DEF AddonDone
<1>2. ASSUME NEW x \in ExtOf(g), NEW n, NEW m,
             \/ n = "create_ext" /\ m \in {"ext_created", "ext_failed"}
             \/ n = "destroy_ext" /\ m = "ext_destroyed",
             ThreadReply(g, <<n, x>>, <<m, x>>)
      PROVE  Advances
  BY <1>1, <1>2, ReplyStep
<1>3. ASSUME NEW x \in ExtOf(g),
             \/ ThreadReply(g, <<"create_ext", x>>, <<"ext_created", x>>)
             \/ ThreadReply(g, <<"create_ext", x>>, <<"ext_failed", x>>)
             \/ ThreadReply(g, <<"destroy_ext", x>>, <<"ext_destroyed", x>>)
      PROVE  Advances
  BY <1>2, <1>3
<1>4. CASE GroupInstance(g)
  BY <1>1, <1>4, GroupInstanceStep
<1>5. CASE ThreadReply(g, <<"destroy_group", g>>, <<"group_destroyed", g>>)
  BY <1>1, <1>5, GroupReplyStep
<1> QED BY <1>3, <1>4, <1>5 DEF AddonDone

LEMMA StartGraphStep ==
    ASSUME Typed, NEW place \in [Group -> Places], Placed(place), StartGraph
    PROVE  Advances
<1> DEFINE next == [g \in Group |-> 2]
<1>1. QueuesTyped /\ engine = "running"
  BY DEF Typed, StartGraph, EngineTask
<1>2. /\ UNCHANGED <<runloop, t_queue, t_state, is_close_triggered, err_before_ready, life>>
      /\ UNCHANGED <<engine, is_closing, cnt, threads>>
      /\ start_graph' = "pending" /\ extension_context' = "open"
      /\ addon' = addon \union {<<"create_group", g>> : g \in Group}
  BY DEF StartGraph
<1>3. EngineMoves({<<"start_graph", 0>>}, {})
  BY <1>1, EngineTakes DEF StartGraph
<1>4. Moves(e_queue, e_queue', {<<"start_graph", 0>>}, {})
  BY <1>3 DEF EngineMoves
<1>5. QueuesTyped'
  BY <1>1, <1>2, <1>3, EngineMovesTyped
<1>6. /\ StartsTogether(place) /\ ClosesAll(place) /\ ToldByEngine /\ CountsAgree(place)
      /\ AnswerIsRight(place)
  BY DEF Placed, EngineAt
<1>7. start_graph = "none" /\ \A g \in Group : place[g] = 1
  BY <1>4, <1>6 DEF StartsTogether, Moves
<1>8. next \in [Group -> Places] /\ \A g \in Group : next[g] = 2
  BY DEF Places
<1> HIDE DEF next
<1>9. ASSUME NEW g \in Group PROVE At(g, 2)'
  <2>1. GroupIs(g, 1)
    BY <1>7, GroupOf
  <2>2. EngineHas(g, 2, e_queue')
    BY <1>4, <2>1 DEF GroupIs, EngineHas, Moves
  <2>3. AddonHas(g, 2, addon')
    BY <1>2, <2>1 DEF GroupIs, AddonHas
  <2>4. /\ ThreadHas(g, 2, t_queue[g], Told(g)) /\ ThreadOnce(g, t_queue[g])
        /\ ThreadIs(2, runloop[g], t_state[g], g \in threads, Told(g))
        /\ \A x \in ExtOf(g) : ExtensionIs(2, ext_state[x], t_state[g], Told(g))
    BY <2>1 DEF GroupIs, ThreadHas, ThreadIs, ExtensionIs
  <2>5. GroupIs(g, 2)'
    BY <1>2, <2>2, <2>3, <2>4 DEF GroupIs, Told, life
  <2>6. \A x \in ExtOf(g) : ExtensionHas(x, 2)'
    <3>1. ThreadMoves(g, {}, {})
      BY <1>1, <1>2, ThreadPosts
    <3>2. Moves(t_queue[g], t_queue'[g], {}, {})
      BY <3>1 DEF ThreadMoves
    <3>3. {} \in SUBSET GroupTasks(g) /\ place[g] \notin {7, 11}
      BY <1>7
    <3>4. \A x : \A n \in {"create_ext", "destroy_ext"} : <<n, x>> \in addon' => <<n, x>> \in addon
      BY <1>2
    <3> QED BY <1>2, <3>2, <3>3, <3>4, ExtensionsKeep
  <2> QED BY <2>5, <2>6, AtParts
<1>10. StartsTogether(next)'
  <2>1. ~Has(e_queue', <<"start_graph", 0>>) /\ Once(e_queue', <<"start_graph", 0>>)
    BY <1>4, <1>6 DEF StartsTogether, Moves
  <2> QED BY <1>2, <1>8, <2>1 DEF StartsTogether
<1>11. ClosesAll(next)'
  <2>1. Has(e_queue', <<"close", 0>>) =>
            \A g \in Group : Precedes(e_queue', <<"close", 0>>, <<"group_created", g>>)
    <3>1. Has(e_queue', <<"close", 0>>) => Has(e_queue, <<"close", 0>>)
      BY <1>4 DEF Moves
    <3>2. Has(e_queue, <<"close", 0>>) =>
              \A g \in Group : Precedes(e_queue, <<"close", 0>>, <<"group_created", g>>)
      <4> SUFFICES ASSUME Has(e_queue, <<"close", 0>>), NEW g \in Group
                   PROVE  Precedes(e_queue, <<"close", 0>>, <<"group_created", g>>)
        OBVIOUS
      <4>1. ~(place[g] > 4)
        BY <1>7
      <4> QED BY <1>1, <1>6, <4>1 DEF ClosesAll
    <3> QED BY <1>4, <3>1, <3>2 DEF Moves
  <2>2. is_closing => cnt.total = Cardinality(Group) /\ Group = {}
    BY <1>1, <1>6, <1>7 DEF ClosesAll
  <2> QED BY <1>1, <1>2, <1>8, <2>1, <2>2 DEF ClosesAll
<1>12. ToldByEngine'
  BY <1>2, <1>6 DEF ToldByEngine, Told
<1>13. CountsAgree(next)'
  <2>1. Gone(next) = Gone(place) /\ Ready(next) = Ready(place)
    BY <1>7, <1>8 DEF Gone, Ready
  <2> QED BY <1>2, <1>6, <2>1 DEF CountsAgree
<1>14. AnswerIsRight(next)'
  <2>1. Has(e_queue', <<"close", 0>>) => Has(e_queue, <<"close", 0>>)
    BY <1>4 DEF Moves
  <2> QED BY <1>2, <1>6, <1>7, <2>1 DEF AnswerIsRight
<1>15. EngineAt(next)'
  BY <1>10, <1>11, <1>12, <1>13, <1>14 DEF EngineAt
<1>16. Placed(next)'
  BY <1>8, <1>9, <1>15 DEF Placed
<1> QED BY <1>5, <1>8, <1>16 DEF Advances

\* Nothing has been posted to the runloop of a thread that does not run yet.
LEMMA NothingYet ==
    ASSUME Typed, NEW place \in [Group -> Places], Placed(place), NEW g \in Group, place[g] <= 4
    PROVE  /\ t_queue[g] = <<>>
           /\ \A x \in ExtOf(g) : ext_state[x] = "none"
<1>1. GroupIs(g, place[g]) /\ place[g] \in Places
  BY GroupOf
<1>2. \A x \in ExtOf(g) : ext_state[x] \in ExtStates /\ ExtensionIs(place[g], ext_state[x], t_state[g], Told(g))
  BY <1>1, ExtGroup DEF Typed, ExtsTyped, GroupIs
<1>3. \A x \in ExtOf(g) : ext_state[x] = "none"
  BY <1>1, <1>2 DEF ExtensionIs, ExtStates, Places, Living, StartFlow, CloseFlow
<1>4. \A n \in GroupNames : ~Has(t_queue[g], <<n, g>>)
  BY <1>1 DEF GroupIs, ThreadHas, GroupNames, Places
<1>5. ASSUME NEW x \in ExtOf(g), NEW n \in ExtNames PROVE ~Has(t_queue[g], <<n, x>>)
  <2>1. Answers(x, place[g], t_queue[g], ext_state[x], addon)
    BY HasOf
  <2> QED BY <2>1 DEF Answers, ExtNames
<1>6. ASSUME NEW x \in ExtOf(g),
             NEW n \in {"on_init", "on_start", "timers_closed", "proxy_deleted", "del_extension"}
      PROVE  ~Has(t_queue[g], <<n, x>>)
  <2>1. LifeGoesOn(x, t_queue[g], "none", x \in path_timers, proxy[x])
    BY <1>3, HasOf
  <2> QED BY <2>1 DEF LifeGoesOn, StoppedBefore, Living, StartFlow
<1>7. ASSUME NEW u \in ThreadTasks(g) PROVE ~Has(t_queue[g], u)
  <2>1. \/ \E n \in GroupNames : u = <<n, g>>
        \/ \E x \in ExtOf(g) : \E n \in ExtNames : u = <<n, x>>
        \/ \E x \in ExtOf(g) :
               \E n \in {"on_init", "on_start", "timers_closed", "proxy_deleted", "del_extension"} : u = <<n, x>>
    BY DEF ThreadTasks, GroupNames, ExtNames
  <2> QED BY <1>4, <1>5, <1>6, <2>1
<1>8. t_queue[g] \in Seq(ThreadTasks(g))
  BY DEF Typed, QueuesTyped
<1> QED BY <1>3, <1>7, <1>8, QueueEmpty

LEMMA GroupCreatedStep ==
    ASSUME Typed, NEW place \in [Group -> Places], Placed(place), NEW g \in Group, GroupCreated(g)
    PROVE  Advances
<1>1. QueuesTyped /\ engine = "running" /\ threads \subseteq Group
  BY DEF Typed, EngineTyped, GroupCreated, EngineTask
<1>2. /\ UNCHANGED <<t_state, is_close_triggered, err_before_ready, life, addon>>
      /\ UNCHANGED <<engine, extension_context, is_closing, cnt, start_graph>>
      /\ threads' = threads \union {g}
  BY DEF GroupCreated
<1>3. EngineMoves({<<"group_created", g>>}, {})
  BY <1>1, EngineTakes DEF GroupCreated
<1>4. Moves(e_queue, e_queue', {<<"group_created", g>>}, {})
  BY <1>3 DEF EngineMoves
<1>5. /\ StartsTogether(place) /\ ClosesAll(place) /\ ToldByEngine /\ CountsAgree(place)
      /\ AnswerIsRight(place)
  BY DEF Placed, EngineAt
<1>6. GroupIs(g, 3) /\ place[g] = 3
  <2>1. GroupIs(g, place[g]) /\ Has(e_queue, <<"group_created", g>>)
    BY <1>4, GroupOf DEF Moves
  <2> QED BY <2>1 DEF GroupIs, EngineHas
<1>7. /\ ~Has(e_queue, <<"start_graph", 0>>) /\ extension_context # "none"
      /\ \A h \in Group : place[h] <= 4
      /\ start_graph \notin {"ok", "error"}
      /\ ~is_closing
      /\ Once(e_queue, <<"start_graph", 0>>)
      /\ extension_context # "closed"
  BY <1>1, <1>5, <1>6 DEF StartsTogether, ClosesAll
<1>8. ~Has(e_queue', <<"close", 0>>)
  <2>1. Has(e_queue, <<"close", 0>>) => Precedes(e_queue, <<"close", 0>>, <<"group_created", g>>)
    BY <1>1, <1>5, <1>6 DEF ClosesAll
  <2>2. Has(e_queue', <<"close", 0>>) => Has(e_queue, <<"close", 0>>)
    BY <1>4 DEF Moves
  <2> QED BY <1>4, <2>1, <2>2 DEF Moves
<1>9. ~Has(e_queue', <<"start_graph", 0>>) /\ Once(e_queue', <<"start_graph", 0>>)
  BY <1>4, <1>7 DEF Moves
<1>10. \A h \in Group : t_queue[h] = <<>> /\ \A x \in ExtOf(h) : ext_state[x] = "none"
  BY <1>7, NothingYet
<1>11. ASSUME NEW next \in [Group -> Places], ToldByEngine',
              \/ \A h \in Group : next[h] <= 4
              \/ \A h \in Group : next[h] = 5
       PROVE  EngineAt(next)'
  <2>1. (\A h \in Group : next[h] <= 4) \/ (\A h \in Group : next[h] > 4)
    BY <1>11
  <2>2. \A h \in Group : next[h] <= 5
    BY <1>11 DEF Places
  <2>3. StartsTogether(next)'
    BY <1>2, <1>7, <1>9, <2>1 DEF StartsTogether
  <2>4. ClosesAll(next)'
    BY <1>1, <1>2, <1>7, <1>8 DEF ClosesAll
  <2>5. Gone(next) = Gone(place) /\ Ready(next) = Ready(place)
    BY <1>7, <2>2 DEF Gone, Ready, Places
  <2>6. CountsAgree(next)'
    BY <1>2, <1>5, <2>5 DEF CountsAgree
  <2>7. AnswerIsRight(next)'
    BY <1>2, <1>5, <1>7, <1>8 DEF AnswerIsRight
  <2> QED BY <1>11, <2>3, <2>4, <2>6, <2>7 DEF EngineAt
<1>12. CASE Cardinality(threads') # Cardinality(Group)
  <2> DEFINE next == [place EXCEPT ![g] = 4]
  <2>1. UNCHANGED <<runloop, t_queue>>
    BY <1>12 DEF GroupCreated
  <2>2. QueuesTyped' /\ ThreadMoves(g, {}, {})
    BY <1>1, <1>3, <2>1, EngineMovesTyped, ThreadPosts
  <2>3. At(g, 4)'
    <3>1. EngineHas(g, 4, e_queue')
      BY <1>4, <1>6 DEF GroupIs, EngineHas, Moves
    <3>2. /\ ThreadHas(g, 4, t_queue[g], Told(g)) /\ ThreadOnce(g, t_queue[g])
          /\ ThreadIs(4, runloop[g], t_state[g], g \in threads', Told(g))
          /\ \A x \in ExtOf(g) : ExtensionIs(4, ext_state[x], t_state[g], Told(g))
          /\ AddonHas(g, 4, addon)
      BY <1>2, <1>6 DEF GroupIs, ThreadHas, ThreadIs, ExtensionIs, AddonHas
    <3>3. GroupIs(g, 4)'
      BY <1>2, <2>1, <3>1, <3>2 DEF GroupIs, Told, life
    <3>4. \A x \in ExtOf(g) : ExtensionHas(x, 4)'
      <4>1. Moves(t_queue[g], t_queue'[g], {}, {})
        BY <2>2 DEF ThreadMoves
      <4>2. {} \in SUBSET GroupTasks(g) /\ place[g] \notin {7, 11}
        BY <1>6
      <4> QED BY <1>2, <4>1, <4>2, ExtensionsKeep
    <3> QED BY <3>3, <3>4, AtParts
  <2>4. \A h \in Group : h # g => Spares(h)
    <3>1. {} \in SUBSET (EngineTasksOf(g) \union {<<"close", 0>>})
      OBVIOUS
    <3>2. Touches(g)
      BY <1>2, <2>1, Untouched DEF Told
    <3> QED BY <1>3, <2>2, <3>1, <3>2, TouchesOne
  <2>5. next \in [Group -> Places] /\ \A h \in Group : next[h] <= 4
    BY <1>7 DEF Places
  <2>6. ToldByEngine'
    BY <1>2, <1>5, <2>1 DEF ToldByEngine, Told
  <2>7. EngineAt(next)'
    <3> HIDE DEF next
    <3> QED BY <1>11, <2>5, <2>6
  <2>8. 4 \in Places
    BY DEF Places
  <2> QED BY <2>2, <2>3, <2>4, <2>7, <2>8, GroupMoves DEF Advances
<1>13. CASE Cardinality(threads') = Cardinality(Group)
  <2> DEFINE next == [h \in Group |-> 5]
  <2>1. threads' = Group
    <3>1. threads' \subseteq Group
      BY <1>1, <1>2
    <3> QED BY <1>13, <3>1, Counted
  <2>2. /\ runloop' = [h \in Group |-> "running"]
        /\ t_queue' = [h \in Group |-> <<<<"start", h>>>> \o t_queue[h]]
    BY <1>13, <2>1 DEF GroupCreated
  <2>3. ASSUME NEW h \in Group
        PROVE  /\ t_queue'[h] \in Seq(ThreadTasks(h))
               /\ \A u : /\ Has(t_queue'[h], u) <=> u = <<"start", h>>
                         /\ Once(t_queue'[h], u)
    <3> DEFINE start == <<"start", h>>
               q == <<start>>
    <3>1. q \in Seq(ThreadTasks(h))
      <4>1. start \in ThreadTasks(h)
        BY ThreadKinds
      <4> HIDE DEF start
      <4> QED BY <4>1
    <3>2. t_queue'[h] = q \o <<>>
      BY <1>10, <2>2
    <3>3. \A u : (Has(q, u) <=> u = start) /\ Once(q, u)
      BY HasOne
    <3> HIDE DEF q, start
    <3>4. q \o <<>> = q
      BY <3>1
    <3> QED BY <3>1, <3>2, <3>3, <3>4 DEF start
  <2>4. QueuesTyped'
    <3>1. t_queue' = [h \in Group |-> t_queue'[h]]
      BY <2>2
    <3>2. e_queue' \in Seq(EngineTasks)
      BY <1>3 DEF EngineMoves
    <3>3. \A h \in Group : t_queue'[h] \in Seq(ThreadTasks(h))
      BY <2>3
    <3> QED BY <3>1, <3>2, <3>3 DEF QueuesTyped, ThreadTasks
  <2>5. ASSUME NEW h \in Group PROVE place[h] \in {3, 4} /\ (place[h] = 3 => h = g)
    <3>1. CASE h = g
      BY <1>6, <3>1
    <3>2. CASE h # g
      <4>1. h \in threads /\ ThreadIs(place[h], runloop[h], t_state[h], h \in threads, Told(h)) /\ place[h] \in Places
        BY <1>2, <2>1, <3>2, GroupOf DEF GroupIs
      <4>2. place[h] \in 4..14
        BY <4>1 DEF ThreadIs
      <4> QED BY <1>7, <4>2
    <3> QED BY <3>1, <3>2
  <2>6. ASSUME NEW h \in Group PROVE At(h, 5)'
    <3>1. GroupIs(h, place[h]) /\ place[h] \in {3, 4}
      BY <2>5, GroupOf
    <3>2. EngineHas(h, 5, e_queue')
      <4>1. ~Has(e_queue', <<"group_created", h>>)
        <5>1. CASE h = g
          BY <1>4, <1>6, <5>1 DEF GroupIs, EngineHas, Moves
        <5>2. CASE h # g
          BY <1>4, <2>5, <3>1, <5>2 DEF GroupIs, EngineHas, Moves
        <5> QED BY <5>1, <5>2
      <4> QED BY <1>4, <3>1, <4>1 DEF GroupIs, EngineHas, Moves
    <3>3. AddonHas(h, 5, addon)
      BY <3>1 DEF GroupIs, AddonHas
    <3>4. ThreadHas(h, 5, t_queue'[h], Told(h))
      <4>1. /\ \A n \in GroupNames \ {"start"} : ~Has(t_queue'[h], <<n, h>>)
            /\ Precedes(t_queue'[h], <<"start", h>>, <<"trigger_close", h>>)
        BY <2>3 DEF Precedes, Has
      <4> QED BY <4>1 DEF ThreadHas, GroupNames
    <3>5. ThreadOnce(h, t_queue'[h])
      BY <2>3 DEF ThreadOnce
    <3>6. ThreadIs(5, "running", t_state[h], TRUE, Told(h))
      BY <3>1 DEF GroupIs, ThreadIs
    <3>7. \A x \in ExtOf(h) : ExtensionIs(5, ext_state[x], t_state[h], Told(h))
      BY <1>10 DEF ExtensionIs, Living, StartFlow, CloseFlow
    <3>8. runloop'[h] = "running" /\ (h \in threads') = TRUE
      BY <2>1, <2>2
    <3>9. GroupIs(h, 5)'
      BY <1>2, <3>2, <3>3, <3>4, <3>5, <3>6, <3>7, <3>8 DEF GroupIs, Told, life
    <3>10. ASSUME NEW x \in ExtOf(h) PROVE ExtensionHas(x, 5)'
      <4>1. /\ Answers(x, place[h], t_queue[h], ext_state[x], addon)
            /\ LifeGoesOn(x, t_queue[h], "none", x \in path_timers, proxy[x])
            /\ x[1] = h /\ ext_state[x] = "none"
        BY <1>10, HasOf
      <4>2. \A n \in ExtNames \union {"on_init", "on_start", "timers_closed", "proxy_deleted",
                                      "del_extension"} :
                ~Has(t_queue'[h], <<n, x>>) /\ Once(t_queue'[h], <<n, x>>)
        BY <2>3 DEF ExtNames
      <4>3. Answers(x, 5, t_queue'[h], ext_state[x], addon)
        BY <3>1, <4>1, <4>2 DEF Answers, ExtNames
      <4>4. LifeGoesOn(x, t_queue'[h], "none", x \in path_timers, proxy[x])
        BY <4>1, <4>2 DEF LifeGoesOn
      <4> QED BY <1>2, <4>1, <4>3, <4>4 DEF ExtensionHas, life
    <3> QED BY <3>9, <3>10, AtParts
  <2>7. next \in [Group -> Places] /\ \A h \in Group : next[h] = 5
    BY DEF Places
  <2>8. ToldByEngine'
    <3>1. \A h \in Group : ~Told(h) /\ ~Has(t_queue'[h], <<"trigger_close", h>>)
      BY <1>5, <1>7, <2>3 DEF ToldByEngine
    <3> QED BY <1>2, <3>1 DEF ToldByEngine, Told
  <2> HIDE DEF next
  <2>9. EngineAt(next)'
    BY <1>11, <2>7, <2>8
  <2>10. Placed(next)'
    BY <2>6, <2>7, <2>9 DEF Placed
  <2> QED BY <2>4, <2>7, <2>10 DEF Advances
<1> QED BY <1>12, <1>13

LEMMA StopInsteadStep ==
    ASSUME Typed, NEW place \in [Group -> Places], Placed(place), NEW g \in Group, FindInfo(g),
           StopInstead(g)
    PROVE  Advances
<1>1. QueuesTyped
  BY DEF Typed
<1>2. /\ UNCHANGED <<runloop, t_state, is_close_triggered, err_before_ready, life, addon>>
      /\ UNCHANGED <<engine, extension_context, is_closing, cnt, start_graph, threads>>
  BY DEF FindInfo, StopInstead
<1>3. /\ <<"stop_life_cycle", g>> \in ThreadTasks(g)
      /\ {} \in SUBSET GroupTasks(g)
      /\ {<<"stop_life_cycle", g>>} \in SUBSET (GroupTasks(g) \ {<<"trigger_close", g>>})
      /\ {} \in SUBSET EngineTasksOf(g)
  BY GroupKinds DEF GroupNames
<1>4. ThreadMoves(g, {}, {<<"stop_life_cycle", g>>})
  BY <1>1, <1>3, ThreadPosts DEF StopInstead
<1>5. EngineMoves({<<"find_info", g>>}, {})
  BY <1>1, EngineTakes DEF StopInstead
<1>6. /\ Moves(t_queue[g], t_queue'[g], {}, {<<"stop_life_cycle", g>>})
      /\ Moves(e_queue, e_queue', {<<"find_info", g>>}, {})
  BY <1>4, <1>5 DEF ThreadMoves, EngineMoves
<1>7. GroupIs(g, place[g]) /\ place[g] = 8
  BY <1>6, GroupOf DEF GroupIs, EngineHas, Moves
<1>8. Told(g) /\ is_closing
  BY DEF StopInstead, Told, Placed, EngineAt, ToldByEngine
<1>9. GroupIs(g, 9)'
  <2>1. ThreadHas(g, 9, t_queue'[g], Told(g))
    BY <1>6, <1>7, <1>8 DEF GroupIs, ThreadHas, ThreadOnce, Moves
  <2>2. ThreadOnce(g, t_queue'[g])
    BY <1>6, <1>7 DEF GroupIs, ThreadHas, ThreadOnce, Moves
  <2>3. EngineHas(g, 9, e_queue')
    BY <1>6, <1>7 DEF GroupIs, EngineHas, Moves
  <2>4. /\ AddonHas(g, 9, addon)
        /\ ThreadIs(9, runloop[g], t_state[g], g \in threads, Told(g))
        /\ \A x \in ExtOf(g) : ExtensionIs(9, ext_state[x], t_state[g], Told(g))
    BY <1>7 DEF GroupIs, AddonHas, ThreadIs, ExtensionIs
  <2> QED BY <1>2, <2>1, <2>2, <2>3, <2>4 DEF GroupIs, Told, life
<1>10. Touches(g) /\ Quiet(g)
  BY <1>2, Untouched DEF Quiet, Told
<1>11. Passes(place[g], 9) /\ 9 \in 5..19 /\ (place[g] \in {7, 11} => 9 = place[g])
  BY <1>7, <1>8 DEF Passes
<1> QED BY <1>3, <1>4, <1>5, <1>9, <1>10, <1>11, QuietStep

LEMMA StartExtensionsStep ==
    ASSUME Typed, NEW place \in [Group -> Places], Placed(place), NEW g \in Group, FindInfo(g),
           StartExtensions(g)
    PROVE  Advances
<1> DEFINE next == [place EXCEPT ![g] = 9]
           all_ready == cnt.ready + 1 = Cardinality(threads)
<1>1. /\ QueuesTyped /\ engine = "running" /\ threads \subseteq Group /\ err_before_ready \subseteq Group
      /\ cnt.ready \in Nat /\ cnt \in [{"ready", "closed", "total"} -> Nat]
      /\ start_graph \in {"none", "pending", "ok", "error"}
  BY DEF Typed, EngineTyped, GroupsTyped, StartExtensions, EngineTask
<1>2. /\ UNCHANGED <<runloop, t_state, is_close_triggered, err_before_ready, life, addon>>
      /\ UNCHANGED <<engine, extension_context, is_closing, threads>>
  BY DEF FindInfo
<1>3. /\ cnt' = [cnt EXCEPT !.ready = @ + 1]
      /\ ~all_ready => start_graph' = start_graph
      /\ all_ready => start_graph' = IF threads \intersect err_before_ready # {} THEN "error" ELSE "ok"
      /\ g \notin is_close_triggered
  BY DEF StartExtensions
<1>4. PICK posts \in SUBSET {<<"close", 0>>} :
         EngineMoves({<<"find_info", g>>}, posts) /\ (posts # {} => all_ready)
  <2> DEFINE fails == all_ready /\ threads \intersect err_before_ready # {} /\ ~is_closing
  <2>1. EngineTask("find_info", g, IF fails THEN <<<<"close", 0>>>> ELSE <<>>)
    BY DEF StartExtensions
  <2>2. fails => all_ready
    OBVIOUS
  <2> HIDE DEF fails, all_ready
  <2>3. CASE fails
    <3>1. EngineTask("find_info", g, <<<<"close", 0>>>>)
      BY <2>1, <2>3
    <3>2. EngineMoves({<<"find_info", g>>}, {<<"close", 0>>})
      BY <1>1, <3>1, EngineTakes, EngineKinds
    <3> QED BY <2>2, <2>3, <3>2
  <2>4. CASE ~fails
    <3>1. EngineTask("find_info", g, <<>>)
      BY <2>1, <2>4
    <3>2. EngineMoves({<<"find_info", g>>}, {})
      BY <1>1, <3>1, EngineTakes
    <3> QED BY <3>2
  <2> QED BY <2>3, <2>4
<1>5. Moves(e_queue, e_queue', {<<"find_info", g>>}, posts)
  BY <1>4 DEF EngineMoves
<1>6. /\ <<"start_life_cycle", g>> \in ThreadTasks(g)
      /\ {} \in SUBSET GroupTasks(g) /\ {<<"start_life_cycle", g>>} \in SUBSET GroupTasks(g)
  BY GroupKinds DEF GroupNames
<1>7. ThreadMoves(g, {}, {<<"start_life_cycle", g>>})
  BY <1>1, <1>6, ThreadPosts DEF StartExtensions
<1>8. Moves(t_queue[g], t_queue'[g], {}, {<<"start_life_cycle", g>>})
  BY <1>7 DEF ThreadMoves
<1>9. GroupIs(g, 8) /\ place[g] = 8
  <2>1. GroupIs(g, place[g]) /\ Has(e_queue, <<"find_info", g>>)
    BY <1>5, GroupOf DEF Moves
  <2> QED BY <2>1 DEF GroupIs, EngineHas
<1>10. At(g, 9)'
  <2>1. ThreadHas(g, 9, t_queue'[g], Told(g))
    BY <1>8, <1>9 DEF GroupIs, ThreadHas, ThreadOnce, Moves
  <2>2. ThreadOnce(g, t_queue'[g])
    BY <1>8, <1>9 DEF GroupIs, ThreadHas, ThreadOnce, Moves
  <2>3. EngineHas(g, 9, e_queue')
    <3>1. \A n \in EngineNames : <<n, g>> \notin posts
      BY DEF EngineNames
    <3> QED BY <1>5, <1>9, <3>1 DEF GroupIs, EngineHas, Moves, EngineNames
  <2>4. /\ AddonHas(g, 9, addon)
        /\ ThreadIs(9, runloop[g], t_state[g], g \in threads, Told(g))
        /\ \A x \in ExtOf(g) : ExtensionIs(9, ext_state[x], t_state[g], Told(g))
    BY <1>9 DEF GroupIs, AddonHas, ThreadIs, ExtensionIs
  <2>5. GroupIs(g, 9)'
    BY <1>2, <2>1, <2>2, <2>3, <2>4 DEF GroupIs, Told, life
  <2>6. \A x \in ExtOf(g) : ExtensionHas(x, 9)'
    <3>1. place[g] \notin {7, 11} /\ \A r : r \in addon' => r \in addon
      BY <1>2, <1>9
    <3> QED BY <1>2, <1>6, <1>8, <3>1, ExtensionsKeep
  <2> QED BY <2>5, <2>6, AtParts
<1>11. \A h \in Group : h # g => Spares(h)
  <2>1. posts \in SUBSET (EngineTasksOf(g) \union {<<"close", 0>>})
    OBVIOUS
  <2>2. Touches(g)
    BY <1>2, Untouched DEF Told
  <2> QED BY <1>4, <1>7, <2>1, <2>2, TouchesOne
<1>12. QueuesTyped'
  BY <1>1, <1>4, <1>7, MovesTyped
<1>13. /\ StartsTogether(place) /\ ClosesAll(place) /\ ToldByEngine /\ CountsAgree(place)
       /\ AnswerIsRight(place)
  BY DEF Placed, EngineAt
<1>14. next \in [Group -> Places] /\ next[g] = 9 /\ \A h \in Group : h # g => next[h] = place[h]
  BY DEF Places
<1> HIDE DEF next
<1>15. \A h \in Group : place[h] > 4 /\ next[h] > 4
  <2>1. \A h \in Group : place[h] > 4
    BY <1>9, <1>13 DEF StartsTogether
  <2> QED BY <1>14, <2>1
<1>16. StartsTogether(next)'
  <2>1. ~Has(e_queue', <<"start_graph", 0>>) /\ Once(e_queue', <<"start_graph", 0>>) /\ extension_context # "none"
    <3>1. /\ ~Has(e_queue, <<"start_graph", 0>>) /\ extension_context # "none"
          /\ Once(e_queue, <<"start_graph", 0>>)
      BY <1>9, <1>13 DEF StartsTogether
    <3>2. <<"start_graph", 0>> \notin posts
      OBVIOUS
    <3> QED BY <1>5, <3>1, <3>2 DEF Moves
  <2> QED BY <1>2, <1>15, <2>1 DEF StartsTogether
<1>17. cnt'.total = cnt.total /\ cnt'.closed = cnt.closed /\ cnt'.ready = cnt.ready + 1
  BY <1>1, <1>3
<1>18. ClosesAll(next)'
  BY <1>1, <1>2, <1>13, <1>15, <1>17 DEF ClosesAll
<1>19. ToldByEngine'
  <2>1. \A h \in Group : Has(t_queue'[h], <<"trigger_close", h>>) => Has(t_queue[h], <<"trigger_close", h>>)
    BY <1>7, <1>8 DEF ThreadMoves, Moves
  <2> QED BY <1>2, <1>13, <2>1 DEF ToldByEngine, Told
<1>20. Gone(next) = Gone(place)
  BY <1>9, <1>14 DEF Gone
<1>21. Cardinality(Ready(next)) = Cardinality(Ready(place)) + 1 /\ Cardinality(Ready(place)) \in Nat
  <2>1. Ready(next) = Ready(place) \union {g} /\ g \notin Ready(place)
    BY <1>9, <1>14 DEF Ready
  <2>2. Ready(place) \subseteq Group
    BY DEF Ready
  <2> QED BY <2>1, <2>2, Counted, FS_AddElement
<1>22. CountsAgree(next)'
  BY <1>1, <1>2, <1>13, <1>17, <1>20, <1>21 DEF CountsAgree
<1>23. AnswerIsRight(next)'
  <2> SUFFICES ASSUME CloseFrom = "answered"
               PROVE  /\ start_graph' \in {"none", "pending"} => ~is_closing /\ ~Has(e_queue', <<"close", 0>>)
                      /\ start_graph' \in {"ok", "error"} =>
                            /\ \A h \in Group : next[h] >= 9
                            /\ cnt'.ready = Cardinality(Group)
                            /\ start_graph' = "ok" <=> err_before_ready = {}
    BY <1>2 DEF AnswerIsRight
  <2>1. ~is_closing /\ ~Has(e_queue, <<"close", 0>>) /\ start_graph \in {"none", "pending"}
    BY <1>1, <1>9, <1>13 DEF AnswerIsRight
  <2>2. CASE ~all_ready
    <3>1. ~Has(e_queue', <<"close", 0>>)
      BY <1>4, <1>5, <2>1, <2>2 DEF Moves
    <3> QED BY <1>3, <2>1, <2>2, <3>1
  <2>3. CASE all_ready
    <3>1. \A h \in Group : h \in threads
      BY <1>15, <2>1, NotYetClosing
    <3>2. threads = Group
      BY <1>1, <3>1
    <3>3. cnt'.ready = Cardinality(Group) /\ Cardinality(Ready(next)) = Cardinality(Group)
      BY <1>13, <1>17, <1>21, <2>1, <2>3, <3>2 DEF CountsAgree
    <3>4. Ready(next) = Group
      <4>1. Ready(next) \subseteq Group
        BY DEF Ready
      <4> QED BY <3>3, <4>1, Counted
    <3>5. \A h \in Group : next[h] >= 9
      BY <3>4 DEF Ready
    <3>6. start_graph' = "ok" <=> err_before_ready = {}
      BY <1>1, <1>3, <2>3, <3>2
    <3>7. start_graph' \in {"ok", "error"}
      BY <1>3, <2>3
    <3> QED BY <3>3, <3>5, <3>6, <3>7
  <2> QED BY <2>2, <2>3
<1>24. EngineAt(next)'
  BY <1>16, <1>18, <1>19, <1>22, <1>23 DEF EngineAt
<1>25. 9 \in Places
  BY DEF Places
<1> QED BY <1>10, <1>11, <1>12, <1>24, <1>25, GroupMoves DEF next, Advances

\* The engine tells every thread to close.
LEMMA CloseThreadsStep ==
    ASSUME Typed, NEW place \in [Group -> Places], Placed(place), CloseTask, CloseThreads
    PROVE  Advances
<1>1. /\ QueuesTyped /\ engine = "running" /\ threads \subseteq Group
      /\ cnt \in [{"ready", "closed", "total"} -> Nat]
      /\ start_graph \in {"none", "pending", "ok", "error"}
  BY DEF Typed, EngineTyped, CloseTask, EngineTask
<1>2. /\ UNCHANGED <<runloop, t_state, is_close_triggered, err_before_ready, life, addon>>
      /\ UNCHANGED <<engine, extension_context, threads, start_graph>>
      /\ ~is_closing /\ threads # {} /\ is_closing'
  BY DEF CloseTask, CloseThreads
<1>3. EngineMoves({<<"close", 0>>}, {})
  BY <1>1, EngineTakes DEF CloseTask
<1>4. Moves(e_queue, e_queue', {<<"close", 0>>}, {})
  BY <1>3 DEF EngineMoves
<1>5. /\ StartsTogether(place) /\ ClosesAll(place) /\ ToldByEngine /\ CountsAgree(place)
      /\ AnswerIsRight(place)
  BY DEF Placed, EngineAt
<1>6. /\ Has(e_queue', <<"start_graph", 0>>) => Has(e_queue, <<"start_graph", 0>>)
      /\ Once(e_queue, <<"start_graph", 0>>) => Once(e_queue', <<"start_graph", 0>>)
      /\ Has(e_queue, <<"close", 0>>)
  BY <1>4 DEF Moves
<1>7. \A h \in Group : place[h] \in 5..10 /\ h \in threads /\ ~Told(h)
  <2>1. PICK g \in Group : g \in threads
    BY <1>1, <1>2
  <2>2. ThreadIs(place[g], runloop[g], t_state[g], g \in threads, Told(g))
    BY GroupOf DEF GroupIs
  <2>3. ~(place[g] <= 3)
    BY <2>1, <2>2 DEF ThreadIs
  <2>4. \A h \in Group : place[h] > 4
    BY <1>1, <1>5, <1>6, <2>3 DEF ClosesAll
  <2>5. \A h \in Group : place[h] <= 10 /\ h \in threads
    BY <1>2, <2>4, NotYetClosing
  <2>6. \A h \in Group : ~Told(h)
    BY <1>2, <1>5 DEF ToldByEngine
  <2> QED BY <2>4, <2>5, <2>6 DEF Places
<1>8. threads = Group
  BY <1>1, <1>7
<1>9. ASSUME NEW h \in Group
      PROVE  /\ t_queue'[h] \in Seq(ThreadTasks(h))
             /\ Moves(t_queue[h], t_queue'[h], {}, {<<"trigger_close", h>>})
  <2> DEFINE u == <<"trigger_close", h>>
  <2>1. u \in ThreadTasks(h)
    BY ThreadKinds
  <2>2. t_queue[h] \in Seq(ThreadTasks(h))
    BY <1>1 DEF QueuesTyped
  <2>3. t_queue'[h] = Append(t_queue[h], u)
    BY <1>8 DEF CloseThreads
  <2> HIDE DEF u
  <2>4. Append(t_queue[h], u) \in Seq(ThreadTasks(h))
    BY <2>1, <2>2, HasAppended
  <2>5. Moves(t_queue[h], Append(t_queue[h], u), {}, {u})
    BY <2>1, <2>2, MovesOne
  <2> QED BY <2>3, <2>4, <2>5 DEF u
<1>10. QueuesTyped'
  <2>1. t_queue' = [h \in Group |-> t_queue'[h]]
    BY DEF CloseThreads
  <2>2. e_queue' \in Seq(EngineTasks)
    BY <1>3 DEF EngineMoves
  <2>3. \A h \in Group : t_queue'[h] \in Seq(ThreadTasks(h))
    BY <1>9
  <2> QED BY <2>1, <2>2, <2>3 DEF QueuesTyped, ThreadTasks
<1>11. ASSUME NEW h \in Group PROVE At(h, place[h])'
  <2>1. /\ GroupIs(h, place[h]) /\ place[h] \in 5..10 /\ ~Told(h)
        /\ Moves(t_queue[h], t_queue'[h], {}, {<<"trigger_close", h>>})
        /\ ~Has(t_queue[h], <<"trigger_close", h>>)
    BY <1>2, <1>5, <1>7, <1>9, GroupOf DEF ToldByEngine
  <2>2. EngineHas(h, place[h], e_queue')
    BY <1>4, <2>1 DEF GroupIs, EngineHas, Moves
  <2>3. ThreadHas(h, place[h], t_queue'[h], Told(h))
    <3>1. /\ Has(t_queue'[h], <<"trigger_close", h>>) => ~Told(h) /\ place[h] \in 5..10
          /\ \A n \in GroupNames \ {"trigger_close"} :
                Has(t_queue'[h], <<n, h>>) => Has(t_queue[h], <<n, h>>)
      BY <2>1 DEF Moves
    <3>2. /\ Has(t_queue'[h], <<"start", h>>) =>
                place[h] = 5 /\ Precedes(t_queue'[h], <<"start", h>>, <<"trigger_close", h>>)
          /\ Has(t_queue'[h], <<"group_init_done", h>>) => place[h] = 6
      <4>1. Has(t_queue[h], <<"start", h>>) /\ Precedes(t_queue[h], <<"start", h>>, <<"trigger_close", h>>)
                => Precedes(t_queue'[h], <<"start", h>>, <<"trigger_close", h>>)
        BY <2>1 DEF Moves
      <4>2. Has(t_queue'[h], <<"start", h>>) => Has(t_queue[h], <<"start", h>>)
        BY <3>1 DEF GroupNames
      <4>3. Has(t_queue'[h], <<"group_init_done", h>>) => Has(t_queue[h], <<"group_init_done", h>>)
        BY <3>1 DEF GroupNames
      <4> QED BY <2>1, <4>1, <4>2, <4>3 DEF GroupIs, ThreadHas
    <3>3. /\ Has(t_queue'[h], <<"start_life_cycle", h>>) =>
                place[h] = 9 /\ ~Has(t_queue'[h], <<"stop_life_cycle", h>>)
          /\ Has(t_queue'[h], <<"stop_life_cycle", h>>) => place[h] = 9 /\ Told(h)
      BY <2>1, <3>1 DEF GroupIs, ThreadHas, GroupNames
    <3>4. /\ Has(t_queue'[h], <<"all_extensions_deleted", h>>) => place[h] = 12
          /\ Has(t_queue'[h], <<"group_deinit_done", h>>) => place[h] = 13
          /\ Has(t_queue'[h], <<"removed_from_engine", h>>) => place[h] = 15
          /\ Has(t_queue'[h], <<"group_destroyed", h>>) => place[h] = 17
      BY <2>1, <3>1 DEF GroupIs, ThreadHas, GroupNames
    <3> QED BY <3>1, <3>2, <3>3, <3>4 DEF ThreadHas
  <2>4. ThreadOnce(h, t_queue'[h])
    <3>1. \A n \in GroupNames : Once(t_queue[h], <<n, h>>) => Once(t_queue'[h], <<n, h>>)
      BY <2>1 DEF Moves
    <3> QED BY <2>1, <3>1 DEF GroupIs, ThreadOnce, GroupNames
  <2>5. GroupIs(h, place[h])'
    <3>1. /\ AddonHas(h, place[h], addon)
          /\ ThreadIs(place[h], runloop[h], t_state[h], h \in threads, Told(h))
          /\ \A x \in ExtOf(h) : ExtensionIs(place[h], ext_state[x], t_state[h], Told(h))
      BY <2>1 DEF GroupIs
    <3> QED BY <1>2, <2>2, <2>3, <2>4, <3>1 DEF GroupIs, Told, life
  <2>6. ASSUME NEW x \in ExtOf(h) PROVE ExtensionHas(x, place[h])'
    <3>1. /\ Answers(x, place[h], t_queue[h], ext_state[x], addon)
          /\ LifeGoesOn(x, t_queue[h], ext_state[x], x \in path_timers, proxy[x])
          /\ x[1] = h
      BY HasOf
    <3>2. /\ {} \in SUBSET GroupTasks(h) /\ {<<"trigger_close", h>>} \in SUBSET GroupTasks(h)
      BY GroupKinds DEF GroupNames
    <3>3. LifeGoesOn(x, t_queue'[h], ext_state[x], x \in path_timers, proxy[x])
      BY <2>1, <3>1, <3>2, LifeApart
    <3>4. \A n \in ExtNames : /\ Has(t_queue'[h], <<n, x>>) => Has(t_queue[h], <<n, x>>)
                              /\ Once(t_queue[h], <<n, x>>) => Once(t_queue'[h], <<n, x>>)
      <4>1. \A n \in ExtNames : <<n, x>> \notin {<<"trigger_close", h>>}
        BY DEF ExtNames
      <4> QED BY <2>1, <4>1 DEF Moves
    <3>5. Answers(x, place[h], t_queue'[h], ext_state[x], addon)
      BY <3>1, <3>4 DEF Answers, ExtNames
    <3> QED BY <1>2, <3>1, <3>3, <3>5 DEF ExtensionHas, life
  <2> QED BY <2>5, <2>6, AtParts
<1>12. cnt'.ready = cnt.ready /\ cnt'.closed = 0 /\ cnt'.total = Cardinality(Group)
  BY <1>1, <1>8 DEF CloseThreads
<1>13. StartsTogether(place)'
  BY <1>2, <1>5, <1>6 DEF StartsTogether
<1>14. ClosesAll(place)'
  <2>1. \A h \in Group : place[h] > 4
    BY <1>7
  <2> QED BY <1>1, <1>2, <1>5, <1>12, <2>1 DEF ClosesAll
<1>15. ToldByEngine'
  BY <1>2 DEF ToldByEngine
<1>16. CountsAgree(place)'
  <2>1. Gone(place) = {}
    BY <1>7 DEF Gone
  <2>2. Cardinality(Gone(place)) = 0
    BY <2>1, FS_EmptySet
  <2> QED BY <1>2, <1>5, <1>12, <2>2 DEF CountsAgree
<1>17. AnswerIsRight(place)'
  <2>1. CloseFrom = "answered" => start_graph \in {"ok", "error"}
    BY <1>1, <1>5, <1>6 DEF AnswerIsRight
  <2> QED BY <1>2, <1>5, <1>12, <2>1 DEF AnswerIsRight
<1>18. EngineAt(place)'
  BY <1>13, <1>14, <1>15, <1>16, <1>17 DEF EngineAt
<1>19. Placed(place)'
  BY <1>11, <1>18 DEF Placed
<1> QED BY <1>10, <1>19 DEF Advances

\* The engine joins the thread of g.
LEMMA ThreadClosedStep ==
    ASSUME Typed, NEW place \in [Group -> Places], Placed(place), NEW g \in Group, ThreadClosed(g)
    PROVE  Advances
<1> DEFINE next == [place EXCEPT ![g] = 20]
<1>1. /\ QueuesTyped /\ engine = "running"
      /\ cnt \in [{"ready", "closed", "total"} -> Nat]
      /\ start_graph \in {"none", "pending", "ok", "error"}
  BY DEF Typed, EngineTyped, ThreadClosed, EngineTask
<1>2. /\ UNCHANGED <<runloop, t_queue, t_state, is_close_triggered, err_before_ready, life, addon>>
      /\ UNCHANGED <<is_closing, threads, start_graph>>
  BY DEF ThreadClosed
<1>3. EngineMoves({<<"thread_closed", g>>}, {})
  BY <1>1, EngineTakes DEF ThreadClosed
<1>4. Moves(e_queue, e_queue', {<<"thread_closed", g>>}, {})
  BY <1>3 DEF EngineMoves
<1>5. QueuesTyped' /\ ThreadMoves(g, {}, {})
  BY <1>1, <1>2, <1>3, EngineMovesTyped, ThreadPosts
<1>6. GroupIs(g, 19) /\ place[g] = 19
  <2>1. GroupIs(g, place[g]) /\ Has(e_queue, <<"thread_closed", g>>)
    BY <1>4, GroupOf DEF Moves
  <2> QED BY <2>1 DEF GroupIs, EngineHas
<1>7. /\ StartsTogether(place) /\ ClosesAll(place) /\ ToldByEngine /\ CountsAgree(place)
      /\ AnswerIsRight(place)
  BY DEF Placed, EngineAt
<1>8. At(g, 20)'
  <2>1. EngineHas(g, 20, e_queue')
    BY <1>4, <1>6 DEF GroupIs, EngineHas, Moves
  <2>2. /\ ThreadHas(g, 20, t_queue[g], Told(g)) /\ ThreadOnce(g, t_queue[g])
        /\ ThreadIs(20, runloop[g], t_state[g], g \in threads, Told(g))
        /\ \A x \in ExtOf(g) : ExtensionIs(20, ext_state[x], t_state[g], Told(g))
        /\ AddonHas(g, 20, addon)
    BY <1>6 DEF GroupIs, ThreadHas, ThreadIs, ExtensionIs, AddonHas
  <2>3. GroupIs(g, 20)'
    BY <1>2, <2>1, <2>2 DEF GroupIs, Told, life
  <2>4. \A x \in ExtOf(g) : ExtensionHas(x, 20)'
    <3>1. Moves(t_queue[g], t_queue'[g], {}, {})
      BY <1>5 DEF ThreadMoves
    <3>2. {} \in SUBSET GroupTasks(g) /\ place[g] \notin {7, 11}
      BY <1>6
    <3> QED BY <1>2, <3>1, <3>2, ExtensionsKeep
  <2> QED BY <2>3, <2>4, AtParts
<1>9. \A h \in Group : h # g => Spares(h)
  <2>1. {} \in SUBSET (EngineTasksOf(g) \union {<<"close", 0>>})
    OBVIOUS
  <2>2. Touches(g)
    BY <1>2, Untouched DEF Told
  <2> QED BY <1>3, <1>5, <2>1, <2>2, TouchesOne
<1>10. next \in [Group -> Places] /\ next[g] = 20 /\ \A h \in Group : h # g => next[h] = place[h]
  BY DEF Places
<1> HIDE DEF next
<1>11. \A h \in Group : place[h] > 4 /\ next[h] > 4
  <2>1. \A h \in Group : place[h] > 4
    BY <1>6, <1>7 DEF StartsTogether
  <2> QED BY <1>10, <2>1
<1>12. is_closing
  <2>1. Told(g)
    BY <1>6 DEF GroupIs, ThreadIs
  <2> QED BY <1>7, <2>1 DEF ToldByEngine
<1>13. cnt'.ready = cnt.ready /\ cnt'.total = cnt.total /\ cnt'.closed = cnt.closed + 1
  BY <1>1 DEF ThreadClosed
<1>14. Cardinality(Gone(next)) = cnt'.closed
  <2>1. Gone(next) = Gone(place) \union {g} /\ g \notin Gone(place) /\ Gone(place) \subseteq Group
    BY <1>6, <1>10 DEF Gone
  <2>2. IsFiniteSet(Gone(place))
    BY <2>1, Counted
  <2>3. Cardinality(Gone(place) \union {g}) = Cardinality(Gone(place)) + 1
    BY <2>1, <2>2, FS_AddElement
  <2> QED BY <1>7, <1>13, <2>1, <2>3 DEF CountsAgree
<1>15. \/ extension_context' = extension_context /\ engine' = engine
       \/ engine' = "closed" /\ extension_context' = "closed" /\ \A h \in Group : next[h] = 20
  <2>1. cnt.total = Cardinality(Group)
    BY <1>1, <1>7, <1>12 DEF ClosesAll
  <2>2. CASE cnt'.closed = cnt.total
    <3>1. Gone(next) \subseteq Group
      BY DEF Gone
    <3>2. Gone(next) = Group
      BY <1>14, <2>1, <2>2, <3>1, Counted
    <3>3. \A h \in Group : next[h] = 20
      BY <3>2 DEF Gone
    <3> QED BY <1>12, <2>2, <3>3 DEF ThreadClosed
  <2>3. CASE cnt'.closed # cnt.total
    BY <2>3 DEF ThreadClosed
  <2> QED BY <2>2, <2>3
<1>16. StartsTogether(next)'
  <2>1. /\ Has(e_queue', <<"start_graph", 0>>) => Has(e_queue, <<"start_graph", 0>>)
        /\ Once(e_queue, <<"start_graph", 0>>) => Once(e_queue', <<"start_graph", 0>>)
    BY <1>4 DEF Moves
  <2>2. ~Has(e_queue, <<"start_graph", 0>>) /\ extension_context # "none"
    BY <1>6, <1>7 DEF StartsTogether
  <2>3. extension_context' # "none"
    BY <1>15, <2>2
  <2> QED BY <1>2, <1>7, <1>11, <2>1, <2>2, <2>3 DEF StartsTogether
<1>17. ClosesAll(next)'
  <2>1. CASE extension_context' = extension_context /\ engine' = engine
    BY <1>1, <1>2, <1>7, <1>11, <1>13, <2>1 DEF ClosesAll
  <2>2. CASE engine' = "closed" /\ extension_context' = "closed" /\ \A h \in Group : next[h] = 20
    BY <1>2, <1>12, <2>2 DEF ClosesAll
  <2> QED BY <1>15, <2>1, <2>2
<1>18. ToldByEngine'
  BY <1>2, <1>12 DEF ToldByEngine
<1>19. CountsAgree(next)'
  <2>1. Ready(next) = Ready(place)
    BY <1>6, <1>10 DEF Ready
  <2> QED BY <1>2, <1>7, <1>12, <1>13, <1>14, <2>1 DEF CountsAgree
<1>20. AnswerIsRight(next)'
  <2> SUFFICES ASSUME CloseFrom = "answered"
               PROVE  start_graph \in {"ok", "error"} /\ (\A h \in Group : next[h] >= 9)
                      /\ cnt'.ready = Cardinality(Group) /\ (start_graph = "ok" <=> err_before_ready = {})
    BY <1>2 DEF AnswerIsRight
  <2>1. start_graph \in {"ok", "error"}
    BY <1>1, <1>7, <1>12 DEF AnswerIsRight
  <2>2. \A h \in Group : place[h] >= 9
    BY <1>7, <2>1 DEF AnswerIsRight
  <2>3. \A h \in Group : next[h] >= 9
    BY <1>10, <2>2
  <2> QED BY <1>7, <1>13, <2>1, <2>3 DEF AnswerIsRight
<1>21. EngineAt(next)'
  BY <1>16, <1>17, <1>18, <1>19, <1>20 DEF EngineAt
<1>22. 20 \in Places
  BY DEF Places
<1> QED BY <1>5, <1>8, <1>9, <1>21, <1>22, GroupMoves DEF next, Advances

-----------------------------------------------------------------------------
(* The invariant.                                                          *)

LEMMA Begins ==
    ASSUME Init
    PROVE  LifecycleInv
<1> DEFINE place == [g \in Group |-> 1]
<1>1. \A u : (Has(e_queue, u) <=> u = <<"start_graph", 0>>) /\ Once(e_queue, u)
  BY HasOne DEF Init
<1>2. \A g \in Group : t_queue[g] = <<>>
  BY DEF Init
<1>3. \A g \in Group : \A u : ~Has(t_queue[g], u) /\ Once(t_queue[g], u)
  BY <1>2, HasNone
<1>4. QueuesTyped
  <2>1. e_queue \in Seq(EngineTasks)
    BY EngineKinds DEF Init
  <2>2. \A g \in Group : t_queue[g] \in Seq(ThreadTasks(g))
    <3> DEFINE none == <<>>
    <3>1. \A S : none \in Seq(S)
      BY EmptySeq
    <3> QED BY <1>2, <3>1
  <2>3. t_queue = [g \in Group |-> t_queue[g]]
    BY DEF Init
  <2> QED BY <2>1, <2>2, <2>3 DEF QueuesTyped
<1>5. EngineTyped
  <2>1. cnt \in [{"ready", "closed", "total"} -> Nat] /\ cnt.total = 0
    BY DEF Init
  <2>2. 0 <= Cardinality(Group) /\ 0 \in 0..MaxClose
    BY Counted, GraphLifecycleAssumption
  <2> QED BY <2>1, <2>2 DEF Init, EngineTyped
<1>6. GroupsTyped /\ ExtsTyped /\ addon \subseteq Requests
  BY DEF Init, GroupsTyped, ExtsTyped, ExtStates
<1>7. Typed
  BY <1>4, <1>5, <1>6 DEF Typed
<1>8. place \in [Group -> Places] /\ \A g \in Group : place[g] = 1
  BY DEF Places
<1> HIDE DEF place
<1>9. ASSUME NEW g \in Group PROVE At(g, place[g])
  <2>1. EngineHas(g, 1, e_queue)
    BY <1>1 DEF EngineHas
  <2>2. AddonHas(g, 1, addon)
    BY DEF Init, AddonHas
  <2>3. ThreadHas(g, 1, t_queue[g], Told(g)) /\ ThreadOnce(g, t_queue[g])
    BY <1>3 DEF ThreadHas, ThreadOnce
  <2>4. ThreadIs(1, runloop[g], t_state[g], g \in threads, Told(g))
    BY DEF Init, ThreadIs
  <2>5. ASSUME NEW x \in ExtOf(g) PROVE ExtensionAt(x, 1)
    <3>1. x \in Extension /\ x[1] = g
      BY ExtGroup
    <3>2. ext_state[x] = "none" /\ proxy[x] = "never" /\ addon = {}
      BY <3>1 DEF Init
    <3>3. Answers(x, 1, t_queue[g], "none", {})
      BY <1>3 DEF Answers
    <3>4. LifeGoesOn(x, t_queue[g], "none", x \in path_timers, "never")
      BY <1>3 DEF LifeGoesOn
    <3>5. ExtensionIs(1, "none", t_state[g], Told(g))
      BY DEF ExtensionIs, Living, StartFlow, CloseFlow
    <3> QED BY <3>1, <3>2, <3>3, <3>4, <3>5 DEF ExtensionAt
  <2> QED BY <1>8, <2>1, <2>2, <2>3, <2>4, <2>5 DEF At
<1>10. EngineAt(place)
  <2>1. StartsTogether(place)
    BY <1>1, <1>8 DEF StartsTogether, Init
  <2>2. ClosesAll(place)
    BY <1>1 DEF ClosesAll, Init
  <2>3. ToldByEngine
    BY <1>3 DEF ToldByEngine, Told, Init
  <2>4. Gone(place) = {} /\ Ready(place) = {}
    BY <1>8 DEF Gone, Ready
  <2>5. Cardinality(Gone(place)) = 0 /\ Cardinality(Ready(place)) = 0
    BY <2>4, FS_EmptySet
  <2>6. CountsAgree(place)
    BY <2>5 DEF CountsAgree, Init
  <2>7. AnswerIsRight(place)
    BY <1>1 DEF AnswerIsRight, Init
  <2> QED BY <2>1, <2>2, <2>3, <2>6, <2>7 DEF EngineAt
<1> QED BY <1>7, <1>8, <1>9, <1>10 DEF LifecycleInv, Placed

LEMMA GroupAdvances ==
    ASSUME Typed, NEW place \in [Group -> Places], Placed(place), NEW g \in Group,
           AddonDone(g) \/ ThreadNext(g) \/ ThreadExit(g)
    PROVE  Advances
<1>1. ASSUME NEW x \in ExtOf(g),
             \/ ExtensionCreated(g, x) \/ OnInit(g, x) \/ OnStart(g, x) \/ TimersClosed(g, x)
             \/ ProxyDeleted(g, x) \/ DelExtension(g, x) \/ ExtensionDestroyed(g, x)
      PROVE  Advances
  <2>1. CASE ExtensionCreated(g, x)
    BY <2>1, ExtensionCreatedStep
  <2>2. CASE OnInit(g, x) \/ OnStart(g, x)
    BY <2>2, CallbackStep
  <2>3. CASE TimersClosed(g, x)
    BY <2>3, TimersClosedStep
  <2>4. CASE ProxyDeleted(g, x)
    BY <2>4, ProxyDeletedStep
  <2>5. CASE DelExtension(g, x)
    BY <2>5, DelExtensionStep
  <2>6. CASE ExtensionDestroyed(g, x)
    BY <2>6, ExtensionDestroyedStep
  <2> QED BY <1>1, <2>1, <2>2, <2>3, <2>4, <2>5, <2>6
<1>2. CASE AddonDone(g)
  BY <1>2, AddonDoneStep
<1>3. CASE ThreadExit(g)
  BY <1>3, ThreadExitStep
<1>4. CASE Start(g)
  BY <1>4, StartStep
<1>5. CASE GroupInitDone(g)
  BY <1>5, GroupInitDoneStep
<1>6. CASE TriggerClose(g)
  BY <1>6, TriggerCloseStep
<1>7. CASE StopLifeCycleTask(g)
  BY <1>7, StopLifeCycleTaskStep
<1>8. CASE StartLifeCycle(g)
  BY <1>8, StartLifeCycleStep
<1>9. CASE AllExtensionsDeleted(g)
  BY <1>9, AllExtensionsDeletedStep
<1>10. CASE GroupDeinitDone(g)
  BY <1>10, GroupDeinitDoneStep
<1>11. CASE RemovedFromEngine(g)
  BY <1>11, RemovedFromEngineStep
<1>12. CASE GroupDestroyed(g)
  BY <1>12, GroupDestroyedStep
<1> QED
  BY <1>1, <1>2, <1>3, <1>4, <1>5, <1>6, <1>7, <1>8, <1>9, <1>10, <1>11, <1>12 DEF ThreadNext

LEMMA EngineAdvances ==
    ASSUME Typed, NEW place \in [Group -> Places], Placed(place), CloseEngine \/ EngineNext
    PROVE  Advances
<1>1. CASE CloseEngine
  BY <1>1, CloseEngineStep
<1>2. CASE StartGraph
  BY <1>2, StartGraphStep
<1>3. CASE CloseTask
  <2>1. CASE CloseAgain \/ CloseAtOnce
    BY <1>3, <2>1, CloseNobodyStep
  <2>2. CASE CloseThreads
    BY <1>3, <2>2, CloseThreadsStep
  <2> QED BY <1>3, <2>1, <2>2 DEF CloseTask
<1>4. ASSUME NEW g \in Group, GroupCreated(g) PROVE Advances
  BY <1>4, GroupCreatedStep
<1>5. ASSUME NEW g \in Group, FindInfo(g) PROVE Advances
  <2>1. CASE StopInstead(g)
    BY <1>5, <2>1, StopInsteadStep
  <2>2. CASE StartExtensions(g)
    BY <1>5, <2>2, StartExtensionsStep
  <2> QED BY <1>5, <2>1, <2>2 DEF FindInfo
<1>6. ASSUME NEW g \in Group, RemoveThread(g) PROVE Advances
  BY <1>6, RemoveThreadStep
<1>7. ASSUME NEW g \in Group, ThreadClosed(g) PROVE Advances
  BY <1>7, ThreadClosedStep
<1> QED BY <1>1, <1>2, <1>3, <1>4, <1>5, <1>6, <1>7 DEF EngineNext

LEMMA ExtensionAdvances ==
    ASSUME Typed, NEW place \in [Group -> Places], Placed(place), NEW x \in Extension,
           UserNext(x) \/ CreateProxy(x) \/ ReleaseProxy(x)
    PROVE  Advances
<1>1. CASE OnConfigureDone(x)
  BY <1>1, OnConfigureDoneStep
<1>2. CASE OnInitDone(x)
  BY <1>2, OnInitDoneStep
<1>3. CASE OnStartDone(x)
  BY <1>3, OnStartDoneStep
<1>4. CASE OnStopDone(x)
  BY <1>4, OnStopDoneStep
<1>5. CASE OnDeinitDone(x)
  BY <1>5, OnDeinitDoneStep
<1>6. CASE CreateProxy(x) \/ ReleaseProxy(x)
  BY <1>6, ProxyStep
<1> QED BY <1>1, <1>2, <1>3, <1>4, <1>5, <1>6 DEF UserNext

LEMMA Continues ==
    ASSUME LifecycleInv, [Next]_vars
    PROVE  LifecycleInv'
<1>1. Typed
  BY DEF LifecycleInv
<1>2. PICK place \in [Group -> Places] : Placed(place)
  BY DEF LifecycleInv
<1>3. CASE UNCHANGED vars
  <2>1. /\ UNCHANGED <<engine, extension_context, is_closing, threads, cnt, start_graph, close_requests>>
        /\ UNCHANGED <<runloop, t_state, is_close_triggered, err_before_ready>>
        /\ UNCHANGED <<ext_state, path_timers, proxy, e_queue, t_queue, addon>>
    BY <1>3 DEF vars, context, life
  <2>2. QueuesTyped'
    BY <1>1, <2>1 DEF Typed, QueuesTyped, ThreadTasks
  <2>3. \A h \in Group : Spares(h)
    BY <2>1 DEF Spares
  <2>4. EngineAt(place)
    BY <1>2 DEF Placed
  <2>5. EngineAt(place)'
    BY <2>1, <2>4 DEF EngineAt, StartsTogether, ClosesAll, ToldByEngine, CountsAgree, AnswerIsRight, Told
  <2>6. \E next \in [Group -> Places] : Placed(next)'
    BY <1>2, <2>3, <2>5, AllSpared
  <2>7. EngineTyped' /\ GroupsTyped' /\ ExtsTyped' /\ addon' \subseteq Requests
    BY <1>1, EngineTypedNext, GroupsTypedNext, ExtsTypedNext, AddonTypedNext DEF Typed
  <2> QED BY <2>2, <2>6, <2>7 DEF LifecycleInv, Typed, Requests
<1>4. CASE Next /\ ~UNCHANGED vars
  <2>1. Advances
    <3>1. ASSUME NEW g \in Group, AddonDone(g) \/ ThreadNext(g) \/ ThreadExit(g) PROVE Advances
      BY <1>1, <1>2, <3>1, GroupAdvances
    <3>2. ASSUME NEW x \in Extension, UserNext(x) \/ CreateProxy(x) \/ ReleaseProxy(x) PROVE Advances
      BY <1>1, <1>2, <3>2, ExtensionAdvances
    <3>3. CASE CloseEngine \/ EngineNext
      BY <1>1, <1>2, <3>3, EngineAdvances
    <3> QED BY <1>4, <3>1, <3>2, <3>3 DEF Next, Finished
  <2>2. EngineTyped' /\ GroupsTyped' /\ ExtsTyped' /\ addon' \subseteq Requests
    BY <1>1, EngineTypedNext, GroupsTypedNext, ExtsTypedNext, AddonTypedNext DEF Typed
  <2> QED BY <2>1, <2>2 DEF LifecycleInv, Typed, Requests, Advances
<1> QED BY <1>3, <1>4

\* A group that is started and closed goes through twenty places, one after the other, and
\* every task about it, in the engine's runloop or its thread's, and every request to the
\* app's thread belongs to one of them: no callback comes twice, early or after the object
\* it is about.
THEOREM LifecycleCorrect == Spec => []LifecycleInv
BY Begins, Continues, PTL DEF Spec

-----------------------------------------------------------------------------
(* What the places say of the properties that the runs check.              *)

\* Every variable keeps its type; no more threads are counted ready or closed than there
\* are groups, so the counters of the context meet its number of threads exactly once.
THEOREM TypeCorrect == Spec => []TypeOK
<1>1. ASSUME LifecycleInv PROVE TypeOK
  <2>1. PICK place \in [Group -> Places] : Placed(place)
    BY <1>1 DEF LifecycleInv
  <2>2. /\ EngineTyped /\ GroupsTyped /\ ExtsTyped /\ QueuesTyped /\ addon \subseteq Requests
    BY <1>1 DEF LifecycleInv, Typed
  <2>3. CountsAgree(place)
    BY <2>1 DEF Placed, EngineAt
  <2>4. Gone(place) \subseteq Group /\ Ready(place) \subseteq Group
    BY DEF Gone, Ready
  <2>5. /\ Cardinality(Gone(place)) \in Nat /\ Cardinality(Gone(place)) <= Cardinality(Group)
        /\ Cardinality(Ready(place)) \in Nat /\ Cardinality(Ready(place)) <= Cardinality(Group)
        /\ Cardinality(Group) \in Nat
    BY <2>4, Counted
  <2>6. cnt \in [{"ready", "closed", "total"} -> Nat] /\ cnt.total <= Cardinality(Group)
    BY <2>2 DEF EngineTyped
  <2>7. \A n \in {"ready", "closed", "total"} : cnt[n] \in 0..Cardinality(Group)
    BY <2>3, <2>5, <2>6 DEF CountsAgree
  <2>8. cnt \in [{"ready", "closed", "total"} -> 0..Cardinality(Group)]
    BY <2>6, <2>7
  <2> QED BY <2>2, <2>8 DEF EngineTyped, GroupsTyped, ExtsTyped, QueuesTyped, ExtStates, TypeOK
<1> QED BY <1>1, LifecycleCorrect, PTL

\* A thread that has come to its end, and the extensions it had.
LEMMA NothingLeft ==
    ASSUME Typed, NEW place \in [Group -> Places], Placed(place), NEW g \in Group, place[g] >= 18
    PROVE  /\ t_queue[g] = <<>>
           /\ \A x \in ExtOf(g) : ext_state[x] \in {"none", "failed", "destroyed"}
<1>1. GroupIs(g, place[g]) /\ place[g] \in Places
  BY GroupOf
<1>2. \A x \in ExtOf(g) : ext_state[x] \in ExtStates /\ ExtensionIs(place[g], ext_state[x], t_state[g], Told(g))
  BY <1>1, ExtGroup DEF Typed, ExtsTyped, GroupIs
<1>3. \A x \in ExtOf(g) : ext_state[x] \in {"none", "failed", "destroyed"}
  BY <1>1, <1>2 DEF ExtensionIs, ExtStates, Places, Living, StartFlow, CloseFlow
<1>4. \A n \in GroupNames : ~Has(t_queue[g], <<n, g>>)
  BY <1>1 DEF GroupIs, ThreadHas, GroupNames, Places
<1>5. ASSUME NEW x \in ExtOf(g), NEW n \in ExtNames PROVE ~Has(t_queue[g], <<n, x>>)
  <2>1. Answers(x, place[g], t_queue[g], ext_state[x], addon)
    BY HasOf
  <2> QED BY <2>1 DEF Answers, ExtNames
<1>6. ASSUME NEW x \in ExtOf(g),
             NEW n \in {"on_init", "on_start", "timers_closed", "proxy_deleted", "del_extension"}
      PROVE  ~Has(t_queue[g], <<n, x>>)
  <2>1. LifeGoesOn(x, t_queue[g], ext_state[x], x \in path_timers, proxy[x])
    BY HasOf
  <2>2. ext_state[x] \in {"none", "failed", "destroyed"}
    BY <1>3
  <2> QED BY <2>1, <2>2 DEF LifeGoesOn, StoppedBefore, Living, StartFlow
<1>7. ASSUME NEW u \in ThreadTasks(g) PROVE ~Has(t_queue[g], u)
  <2>1. \/ \E n \in GroupNames : u = <<n, g>>
        \/ \E x \in ExtOf(g) : \E n \in ExtNames : u = <<n, x>>
        \/ \E x \in ExtOf(g) :
               \E n \in {"on_init", "on_start", "timers_closed", "proxy_deleted", "del_extension"} : u = <<n, x>>
    BY DEF ThreadTasks, GroupNames, ExtNames
  <2> QED BY <1>4, <1>5, <1>6, <2>1
<1>8. t_queue[g] \in Seq(ThreadTasks(g))
  BY DEF Typed, QueuesTyped
<1> QED BY <1>3, <1>7, <1>8, QueueEmpty

\* An engine that is closed has no thread under way.
LEMMA ClosedPlaces ==
    ASSUME NEW place \in [Group -> Places], Placed(place), engine = "closed"
    PROVE  (\A g \in Group : place[g] <= 3) \/ (\A g \in Group : place[g] = 20)
BY DEF Placed, EngineAt, ClosesAll

\* The threads, the context and the engine close from the bottom up: what is asserted at
\* extension_context.c:185 and extension_thread.c:177 holds for any number of groups and
\* extensions, from whatever stage on the engine may be closed, and however often it is.
THEOREM ClosingOrder == Spec => []EngineClosesLast
<1>1. ASSUME LifecycleInv PROVE EngineClosesLast
  <2>1. Typed
    BY <1>1 DEF LifecycleInv
  <2>2. PICK place \in [Group -> Places] : Placed(place)
    BY <1>1 DEF LifecycleInv
  <2>3. extension_context = "closed" => engine = "closed"
    BY <2>2 DEF Placed, EngineAt, ClosesAll
  <2>4. ASSUME NEW g \in Group, engine = "closed"
        PROVE  /\ g \notin threads /\ runloop[g] \in {"none", "exited"}
               /\ \A x \in Extensions(g) : ext_state[x] = "destroyed"
    <3>1. ThreadIs(place[g], runloop[g], t_state[g], g \in threads, Told(g)) /\ place[g] \in Places
      BY <2>2, GroupOf DEF GroupIs
    <3>2. CASE place[g] <= 3
      <4>0. place[g] <= 4
        BY <3>1, <3>2 DEF Places
      <4>1. \A x \in ExtOf(g) : ext_state[x] = "none"
        BY <2>1, <2>2, <4>0, NothingYet
      <4> QED BY <3>1, <3>2, <4>1 DEF ThreadIs, Places, Extensions
    <3>3. CASE place[g] = 20
      <4>1. \A x \in ExtOf(g) : ext_state[x] \in {"none", "failed", "destroyed"}
        BY <2>1, <2>2, <3>3, NothingLeft
      <4> QED BY <3>1, <3>3, <4>1 DEF ThreadIs, Places, Extensions
    <3> QED BY <2>2, <2>4, <3>2, <3>3, ClosedPlaces
  <2>5. threads \subseteq Group
    BY <2>1 DEF Typed, EngineTyped
  <2> QED BY <2>3, <2>4, <2>5 DEF EngineClosesLast
<1> QED BY <1>1, LifecycleCorrect, PTL

\* Every ten_runloop_post_task_tail() that a caller asserts finds a runloop that still
\* runs, and a runloop that has stopped was empty: its thread left nothing undone.
THEOREM TasksAreDone == Spec => []NoTaskIsLost
<1>1. ASSUME LifecycleInv PROVE NoTaskIsLost
  <2>1. Typed
    BY <1>1 DEF LifecycleInv
  <2>2. PICK place \in [Group -> Places] : Placed(place)
    BY <1>1 DEF LifecycleInv
  <2>3. ASSUME NEW g \in Group, runloop[g] \in {"stopped", "exited"} PROVE t_queue[g] = <<>>
    <3>1. ThreadIs(place[g], runloop[g], t_state[g], g \in threads, Told(g)) /\ place[g] \in Places
      BY <2>2, GroupOf DEF GroupIs
    <3>2. place[g] >= 18
      BY <2>3, <3>1 DEF ThreadIs, Places
    <3> QED BY <2>1, <2>2, <3>2, NothingLeft
  <2>4. ASSUME engine = "closed", NEW i \in DOMAIN e_queue
        PROVE  e_queue[i] = <<"close", 0>> \/ \A g \in Group : runloop[g] = "none"
    <3>1. CASE \A g \in Group : place[g] <= 3
      <4>1. \A g \in Group : ThreadIs(place[g], runloop[g], t_state[g], g \in threads, Told(g))
        BY <2>2, GroupOf DEF GroupIs
      <4> QED BY <3>1, <4>1 DEF ThreadIs, Places
    <3>2. CASE (\A g \in Group : place[g] = 20) /\ Group # {}
      <4>1. e_queue[i] \in EngineTasks /\ Has(e_queue, e_queue[i])
        <5>1. e_queue \in Seq(EngineTasks)
          BY <2>1 DEF Typed, QueuesTyped
        <5>2. e_queue[i] \in EngineTasks
          BY <5>1
        <5> QED BY <5>2 DEF Has
      <4>2. ~Has(e_queue, <<"start_graph", 0>>)
        BY <2>2, <3>2 DEF Placed, EngineAt, StartsTogether
      <4>3. \A g \in Group : \A n \in EngineNames : ~Has(e_queue, <<n, g>>)
        <5> SUFFICES ASSUME NEW g \in Group
                     PROVE  \A n \in EngineNames : ~Has(e_queue, <<n, g>>)
          OBVIOUS
        <5>1. EngineHas(g, 20, e_queue)
          BY <2>2, <3>2, GroupOf DEF GroupIs
        <5>2. /\ ~Has(e_queue, <<"group_created", g>>) /\ ~Has(e_queue, <<"find_info", g>>)
              /\ ~Has(e_queue, <<"remove_thread", g>>) /\ ~Has(e_queue, <<"thread_closed", g>>)
          BY <5>1 DEF EngineHas
        <5> QED BY <5>2 DEF EngineNames
      <4>4. \/ e_queue[i] = <<"start_graph", 0>> \/ e_queue[i] = <<"close", 0>>
            \/ \E g \in Group : \E n \in EngineNames : e_queue[i] = <<n, g>>
        BY <4>1 DEF EngineTasks, EngineNames
      <4>5. e_queue[i] # <<"start_graph", 0>>
        BY <4>1, <4>2
      <4>6. ASSUME NEW g \in Group, NEW n \in EngineNames PROVE e_queue[i] # <<n, g>>
        BY <4>1, <4>3
      <4> QED BY <4>4, <4>5, <4>6
    <3>3. CASE Group = {}
      BY <3>3
    <3> QED BY <2>2, <2>4, <3>1, <3>2, <3>3, ClosedPlaces
  <2> QED BY <2>3, <2>4 DEF NoTaskIsLost
<1> QED BY <1>1, LifecycleCorrect, PTL

\* A ten_env outlives its ten_env_proxy (ten_env_proxy.c:149): an extension waits with its
\* deletion until the thread has been told that the proxy is gone.
THEOREM ProxiesAreSafe == Spec => []ProxyKeepsAlive
<1>1. ASSUME LifecycleInv PROVE ProxyKeepsAlive
  <2>1. PICK place \in [Group -> Places] : Placed(place)
    BY <1>1 DEF LifecycleInv
  <2>2. ASSUME NEW x \in Extension, proxy[x] \in {"held", "released"}
        PROVE  ext_state[x] \notin {"deleted", "destroyed"}
    <3>1. x[1] \in Group /\ x \in ExtOf(x[1])
      BY ExtGroup
    <3>2. LifeGoesOn(x, t_queue[x[1]], ext_state[x], x \in path_timers, proxy[x])
      BY <2>1, <3>1, HasOf
    <3> QED BY <2>2, <3>2 DEF LifeGoesOn, Living, StartFlow
  <2> QED BY <2>2 DEF ProxyKeepsAlive
<1> QED BY <1>1, LifecycleCorrect, PTL

\* start_graph is answered once every thread has found its extensions, and with OK exactly
\* when none of them failed, if the app waits for the answer before it closes the engine.
THEOREM AnswerCorrect ==
    ASSUME CloseFrom = "answered"
    PROVE  Spec => []AnsweredMeansReady
<1>1. ASSUME LifecycleInv PROVE AnsweredMeansReady
  <2>1. PICK place \in [Group -> Places] : Placed(place)
    BY <1>1 DEF LifecycleInv
  <2>2. AnswerIsRight(place)
    BY <2>1 DEF Placed, EngineAt
  <2> QED BY <2>2 DEF AnswerIsRight, AnsweredMeansReady
<1> QED BY <1>1, LifecycleCorrect, PTL

-----------------------------------------------------------------------------
(* What the runtime promises to an extension.                              *)

\* Where an extension may go from the state s.
NextStates(s) ==
    CASE s = "none" -> {"INIT", "failed"}
      [] s = "INIT" -> {"ON_CONFIGURE"}
      [] s = "ON_CONFIGURE" -> {"ON_CONFIGURE_DONE", "ON_STOP"}
      [] s = "ON_CONFIGURE_DONE" -> {"ON_INIT", "ON_STOP"}
      [] s = "ON_INIT" -> {"ON_INIT_DONE", "ON_STOP"}
      [] s = "ON_INIT_DONE" -> {"ON_START", "ON_STOP"}
      [] s = "ON_START" -> {"ON_START_DONE", "ON_STOP"}
      [] s = "ON_START_DONE" -> {"ON_STOP"}
      [] s = "ON_STOP" -> {"ON_STOP_DONE", "ON_DEINIT"}
      [] s = "ON_STOP_DONE" -> {"ON_DEINIT"}
      [] s = "ON_DEINIT" -> {"ON_DEINIT_DONE"}
      [] s = "ON_DEINIT_DONE" -> {"deleted"}
      [] s = "deleted" -> {"destroyed"}
      [] OTHER -> {}

Flows(x) == ext_state'[x] = ext_state[x] \/ ext_state'[x] \in NextStates(ext_state[x])

\* A step that takes only the extension x on.
LEMMA OneFlows ==
    ASSUME ExtsTyped, NEW x \in Extension, NEW s, ext_state' = Enter(x, s),
           s \in NextStates(ext_state[x]), NEW y \in Extension
    PROVE  Flows(y)
<1>1. CASE y = x
  BY <1>1 DEF ExtsTyped, Enter, Flows
<1>2. CASE y # x
  BY <1>2 DEF ExtsTyped, Enter, Flows
<1> QED BY <1>1, <1>2

\* The extension whose task the thread takes, and what that says of its state.
LEMMA TakenLife ==
    ASSUME QueuesTyped, NEW place \in [Group -> Places], Placed(place), NEW g \in Group, NEW x \in ExtOf(g),
           NEW n, NEW posts, ThreadTask(g, n, x, posts)
    PROVE  /\ n = "on_init" => ext_state[x] \in {"ON_CONFIGURE_DONE"} \union CloseFlow
           /\ n = "on_start" => ext_state[x] \in {"ON_INIT_DONE"} \union CloseFlow
           /\ n = "timers_closed" => ext_state[x] = "ON_STOP_DONE"
           /\ n = "del_extension" => ext_state[x] = "ON_DEINIT_DONE"
           /\ n \in {"ext_created", "ext_failed"} => ext_state[x] = "none"
           /\ n = "ext_destroyed" => ext_state[x] = "deleted"
<1>1. Has(t_queue[g], <<n, x>>)
  <2>1. t_queue[g] \in Seq(ThreadTasks(g)) /\ t_queue[g] # <<>> /\ Head(t_queue[g]) = <<n, x>>
    BY DEF QueuesTyped, ThreadTask
  <2>2. Has(t_queue[g], Head(t_queue[g]))
    BY <2>1, HasTail
  <2> QED BY <2>1, <2>2
<1>2. /\ Answers(x, place[g], t_queue[g], ext_state[x], addon)
      /\ LifeGoesOn(x, t_queue[g], ext_state[x], x \in path_timers, proxy[x])
  BY HasOf
<1>3. /\ n = "on_init" => ext_state[x] \in {"ON_CONFIGURE_DONE", "ON_STOP", "ON_STOP_DONE"}
      /\ n = "on_start" => ext_state[x] \in {"ON_INIT_DONE", "ON_STOP", "ON_STOP_DONE"}
  BY <1>1, <1>2 DEF LifeGoesOn, StoppedBefore
<1>4. /\ n = "timers_closed" => ext_state[x] = "ON_STOP_DONE"
      /\ n = "del_extension" => ext_state[x] = "ON_DEINIT_DONE"
  BY <1>1, <1>2 DEF LifeGoesOn
<1>5. /\ n \in {"ext_created", "ext_failed"} => ext_state[x] = "none"
      /\ n = "ext_destroyed" => ext_state[x] = "deleted"
  BY <1>1, <1>2 DEF Answers
<1> QED BY <1>3, <1>4, <1>5 DEF CloseFlow

LEMMA StopsFlow ==
    ASSUME Typed, NEW g \in Group, NEW task, StopLifeCycle(g, task), NEW y \in Extension
    PROVE  Flows(y)
BY DEF StopLifeCycle, Flows, NextStates, Typed, ExtsTyped

LEMMA TasksFlow ==
    ASSUME Typed, NEW place \in [Group -> Places], Placed(place), NEW g \in Group, ThreadNext(g),
           NEW y \in Extension
    PROVE  Flows(y)
<1>1. QueuesTyped /\ ExtsTyped
  BY DEF Typed
<1>2. CASE UNCHANGED ext_state
  BY <1>2 DEF Flows
<1>3. CASE TriggerClose(g) \/ StopLifeCycleTask(g)
  <2>1. UNCHANGED ext_state \/ \E task : StopLifeCycle(g, task)
    BY <1>3 DEF TriggerClose, StopLifeCycleTask
  <2> QED BY <1>2, <2>1, StopsFlow
<1>4. CASE StartLifeCycle(g) /\ ext_state' # ext_state
  <2>1. /\ ext_state' = [x \in Extension |-> IF x \in Extensions(g) THEN "ON_CONFIGURE" ELSE ext_state[x]]
        /\ ThreadTask(g, "start_life_cycle", g, <<>>)
    BY <1>4 DEF StartLifeCycle
  <2>2. CASE y \in Extensions(g)
    <3>1. y \in ExtOf(g) /\ ext_state[y] \in ExtStates \ {"none", "failed"}
      BY <1>1, <2>2 DEF Extensions, ExtsTyped
    <3>2. Has(t_queue[g], <<"start_life_cycle", g>>)
      <4>1. t_queue[g] \in Seq(ThreadTasks(g)) /\ t_queue[g] # <<>> /\ Head(t_queue[g]) = <<"start_life_cycle", g>>
        BY <1>1, <2>1 DEF QueuesTyped, ThreadTask
      <4>2. Has(t_queue[g], Head(t_queue[g]))
        BY <4>1, HasTail
      <4> QED BY <4>1, <4>2
    <3>3. place[g] = 9
      BY <3>2, GroupOf DEF GroupIs, ThreadHas
    <3>4. ExtensionIs(9, ext_state[y], t_state[g], Told(g))
      BY <3>1, <3>3, GroupOf DEF GroupIs
    <3>5. ext_state[y] = "INIT"
      BY <3>1, <3>4 DEF ExtensionIs, ExtStates, Living, StartFlow, CloseFlow
    <3> QED BY <2>1, <2>2, <3>5 DEF Flows, NextStates
  <2>3. CASE y \notin Extensions(g)
    BY <2>1, <2>3 DEF Flows
  <2> QED BY <2>2, <2>3
<1>5. ASSUME NEW x \in ExtOf(g),
             NEW n \in {"ext_created", "ext_failed", "on_init", "on_start", "timers_closed",
                        "del_extension", "ext_destroyed"},
             NEW posts, ThreadTask(g, n, x, posts),
             NEW s, ext_state' = Enter(x, s),
             \/ n = "ext_created" /\ s = "INIT"
             \/ n = "ext_failed" /\ s = "failed"
             \/ n = "on_init" /\ s = "ON_INIT" /\ ext_state[x] \notin CloseFlow
             \/ n = "on_start" /\ s = "ON_START" /\ ext_state[x] \notin CloseFlow
             \/ n = "timers_closed" /\ s = "ON_DEINIT"
             \/ n = "del_extension" /\ s = "deleted"
             \/ n = "ext_destroyed" /\ s = "destroyed"
      PROVE  Flows(y)
  <2>1. x \in Extension
    BY ExtGroup
  <2>2. \/ ext_state[x] = "none" /\ s \in {"INIT", "failed"}
        \/ ext_state[x] = "ON_CONFIGURE_DONE" /\ s = "ON_INIT"
        \/ ext_state[x] = "ON_INIT_DONE" /\ s = "ON_START"
        \/ ext_state[x] = "ON_STOP_DONE" /\ s = "ON_DEINIT"
        \/ ext_state[x] = "ON_DEINIT_DONE" /\ s = "deleted"
        \/ ext_state[x] = "deleted" /\ s = "destroyed"
    BY <1>1, <1>5, TakenLife
  <2>3. s \in NextStates(ext_state[x])
    BY <2>2 DEF NextStates
  <2> QED BY <1>1, <1>5, <2>1, <2>3, OneFlows
<1>6. ASSUME NEW x \in ExtOf(g),
             \/ ExtensionCreated(g, x) \/ OnInit(g, x) \/ OnStart(g, x) \/ TimersClosed(g, x)
             \/ ProxyDeleted(g, x) \/ DelExtension(g, x) \/ ExtensionDestroyed(g, x)
      PROVE  Flows(y)
  <2>1. CASE ExtensionCreated(g, x)
    BY <1>5, <2>1 DEF ExtensionCreated, Created
  <2>2. CASE OnInit(g, x) /\ ext_state[x] \notin CloseFlow
    BY <1>5, <2>2 DEF OnInit, Callback
  <2>3. CASE OnStart(g, x) /\ ext_state[x] \notin CloseFlow
    BY <1>5, <2>3 DEF OnStart, Callback
  <2>4. CASE OnInit(g, x) /\ ext_state[x] \in CloseFlow
    BY <1>2, <2>4 DEF OnInit, Callback
  <2>5. CASE OnStart(g, x) /\ ext_state[x] \in CloseFlow
    BY <1>2, <2>5 DEF OnStart, Callback
  <2>6. CASE TimersClosed(g, x)
    BY <1>5, <2>6 DEF TimersClosed
  <2>7. CASE ProxyDeleted(g, x)
    BY <1>2, <2>7 DEF ProxyDeleted
  <2>8. CASE DelExtension(g, x)
    BY <1>5, <2>8 DEF DelExtension
  <2>9. CASE ExtensionDestroyed(g, x)
    BY <1>5, <2>9 DEF ExtensionDestroyed
  <2> QED BY <1>6, <2>1, <2>2, <2>3, <2>4, <2>5, <2>6, <2>7, <2>8, <2>9
<1>7. CASE \/ Start(g) \/ GroupInitDone(g) \/ AllExtensionsDeleted(g) \/ GroupDeinitDone(g)
           \/ RemovedFromEngine(g) \/ GroupDestroyed(g)
  BY <1>2, <1>7 DEF Start, GroupInitDone, AllExtensionsDeleted, GroupDeinitDone, RemovedFromEngine,
     GroupDestroyed, life
<1> QED BY <1>2, <1>3, <1>4, <1>6, <1>7 DEF ThreadNext

LEMMA UserFlows ==
    ASSUME Typed, NEW x \in Extension, UserNext(x), NEW y \in Extension
    PROVE  Flows(y)
<1>1. ExtsTyped
  BY DEF Typed
<1>2. PICK s \in NextStates(ext_state[x]) : ext_state' = Enter(x, s)
  BY DEF UserNext, OnConfigureDone, OnInitDone, OnStartDone, OnStopDone, OnDeinitDone, Proceed, Calls,
     NextStates
<1> QED BY <1>1, <1>2, OneFlows

\* Whatever happens, an extension goes on to a state that follows the one it is in.
LEMMA AllFlow ==
    ASSUME LifecycleInv, [Next]_vars, NEW y \in Extension
    PROVE  Flows(y)
<1>1. Typed
  BY DEF LifecycleInv
<1>2. PICK place \in [Group -> Places] : Placed(place)
  BY DEF LifecycleInv
<1>3. CASE UNCHANGED ext_state
  BY <1>3 DEF Flows
<1>4. CASE CloseEngine \/ StartGraph \/ CloseTask
  BY <1>3, <1>4 DEF CloseEngine, StartGraph, CloseTask, life
<1>5. ASSUME NEW g \in Group, \/ GroupCreated(g) \/ FindInfo(g) \/ RemoveThread(g) \/ ThreadClosed(g)
                              \/ AddonDone(g) \/ ThreadExit(g)
      PROVE  Flows(y)
  BY <1>3, <1>5 DEF GroupCreated, FindInfo, RemoveThread, ThreadClosed, AddonDone, ThreadExit, life
<1>6. ASSUME NEW g \in Group, ThreadNext(g) PROVE Flows(y)
  BY <1>1, <1>2, <1>6, TasksFlow
<1>7. ASSUME NEW x \in Extension, UserNext(x) PROVE Flows(y)
  BY <1>1, <1>7, UserFlows
<1>8. ASSUME NEW x \in Extension, CreateProxy(x) \/ ReleaseProxy(x) PROVE Flows(y)
  BY <1>3, <1>8 DEF CreateProxy, ReleaseProxy
<1>9. CASE UNCHANGED vars
  BY <1>3, <1>9 DEF vars, life
<1> QED BY <1>4, <1>5, <1>6, <1>7, <1>8, <1>9 DEF Next, EngineNext, Finished

Owing == {"ON_CONFIGURE", "ON_INIT", "ON_START", "ON_STOP", "ON_DEINIT"}

\* What a step of an extension's state is to the abstract life of it.
LEMMA FlowIsLife ==
    ASSUME NEW s \in ExtStates, NEW r \in NextStates(s)
    PROVE  \/ /\ LastCallback(r) = LastCallback(s)
              /\ (s \in Owing <=> r \in Owing) /\ s \notin {"deleted", "destroyed"}
              /\ r \notin {"deleted", "destroyed"}
           \/ /\ s = "deleted" /\ r = "destroyed"
           \/ /\ s \notin {"deleted", "destroyed"} /\ r \notin {"deleted", "destroyed"}
              /\ s \notin Owing /\ r \in Owing /\ LastCallback(r) \in Life!Follows(LastCallback(s))
           \/ /\ s \notin {"deleted", "destroyed"} /\ r \notin {"deleted", "destroyed"}
              /\ s \in Owing /\ r \notin Owing /\ LastCallback(r) = LastCallback(s)
           \/ /\ s \notin {"deleted", "destroyed"} /\ r \notin {"deleted", "destroyed"}
              /\ s \in Owing /\ r \in Owing
              /\ LastCallback(r) \in Life!Follows(LastCallback(s)) \intersect {"on_stop", "on_deinit"}
           \/ s = "ON_DEINIT_DONE" /\ r = "deleted"
<1>1. CASE s = "none"
  BY <1>1 DEF NextStates, LastCallback, Owing
<1>2. CASE s = "INIT"
  BY <1>2 DEF NextStates, LastCallback, Owing, Life!Follows
<1>3. CASE s = "ON_CONFIGURE"
  BY <1>3 DEF NextStates, LastCallback, Owing, Life!Follows
<1>4. CASE s = "ON_CONFIGURE_DONE"
  BY <1>4 DEF NextStates, LastCallback, Owing, Life!Follows
<1>5. CASE s = "ON_INIT"
  BY <1>5 DEF NextStates, LastCallback, Owing, Life!Follows
<1>6. CASE s = "ON_INIT_DONE"
  BY <1>6 DEF NextStates, LastCallback, Owing, Life!Follows
<1>7. CASE s = "ON_START"
  BY <1>7 DEF NextStates, LastCallback, Owing, Life!Follows
<1>8. CASE s = "ON_START_DONE"
  BY <1>8 DEF NextStates, LastCallback, Owing, Life!Follows
<1>9. CASE s = "ON_STOP"
  BY <1>9 DEF NextStates, LastCallback, Owing, Life!Follows
<1>10. CASE s \in {"ON_STOP_DONE", "ON_DEINIT", "ON_DEINIT_DONE", "deleted"}
  BY <1>10 DEF NextStates, LastCallback, Owing, Life!Follows
<1>11. CASE s \in {"failed", "destroyed"}
  BY <1>11 DEF NextStates
<1> QED
  BY <1>1, <1>2, <1>3, <1>4, <1>5, <1>6, <1>7, <1>8, <1>9, <1>10, <1>11
     DEF ExtStates, StartFlow, CloseFlow

LEMMA LifeContinues ==
    ASSUME LifecycleInv, [Next]_vars
    PROVE  Life!Next
<1> SUFFICES ASSUME NEW x \in Extension
             PROVE  \/ Life!Stays(x)
                    \/ /\ x \notin {y \in Extension : ext_state[y] \in {"deleted", "destroyed"}}
                       /\ Life!Call(x) \/ Life!Done(x) \/ Life!DoneAndCall(x) \/ Life!Delete(x)
  BY DEF Life!Next
<1> DEFINE s == ext_state[x]
           last == [y \in Extension |-> LastCallback(ext_state[y])]
           owes == {y \in Extension :
                      ext_state[y] \in {"ON_CONFIGURE", "ON_INIT", "ON_START", "ON_STOP", "ON_DEINIT"}}
           gone == {y \in Extension : ext_state[y] \in {"deleted", "destroyed"}}
<1>1. s \in ExtStates
  BY DEF LifecycleInv, Typed, ExtsTyped
<1>2. PICK r : r = ext_state'[x]
  OBVIOUS
<1>3. /\ last[x] = LastCallback(s) /\ last'[x] = LastCallback(r)
      /\ x \in owes <=> s \in Owing
      /\ x \in owes' <=> r \in Owing
      /\ x \in gone <=> s \in {"deleted", "destroyed"}
      /\ x \in gone' <=> r \in {"deleted", "destroyed"}
  BY <1>2 DEF Owing
<1>4. r = s \/ r \in NextStates(s)
  BY <1>2, AllFlow DEF Flows
<1> HIDE DEF s, last, owes, gone
<1>5. CASE r = s
  BY <1>3, <1>5 DEF Life!Stays, last, owes, gone
<1>6. CASE r \in NextStates(s)
  <2>1. CASE LastCallback(r) = LastCallback(s) /\ (s \in Owing <=> r \in Owing)
             /\ s \notin {"deleted", "destroyed"} /\ r \notin {"deleted", "destroyed"}
    BY <1>3, <2>1 DEF Life!Stays, last, owes, gone
  <2>2. CASE s = "deleted" /\ r = "destroyed"
    BY <1>3, <2>2 DEF Life!Stays, LastCallback, Owing, last, owes, gone
  <2>3. CASE s \notin {"deleted", "destroyed"} /\ r \notin {"deleted", "destroyed"}
             /\ s \notin Owing /\ r \in Owing /\ LastCallback(r) \in Life!Follows(LastCallback(s))
    BY <1>3, <2>3 DEF Life!Call, last, owes, gone
  <2>4. CASE s \notin {"deleted", "destroyed"} /\ r \notin {"deleted", "destroyed"}
             /\ s \in Owing /\ r \notin Owing /\ LastCallback(r) = LastCallback(s)
    BY <1>3, <2>4 DEF Life!Done, last, owes, gone
  <2>5. CASE s \notin {"deleted", "destroyed"} /\ r \notin {"deleted", "destroyed"}
             /\ s \in Owing /\ r \in Owing
             /\ LastCallback(r) \in Life!Follows(LastCallback(s)) \intersect {"on_stop", "on_deinit"}
    BY <1>3, <2>5 DEF Life!DoneAndCall, last, owes, gone
  <2>6. CASE s = "ON_DEINIT_DONE" /\ r = "deleted"
    BY <1>3, <2>6 DEF Life!Delete, LastCallback, Owing, last, owes, gone
  <2> QED BY <1>1, <1>6, <2>1, <2>2, <2>3, <2>4, <2>5, <2>6, FlowIsLife
<1> QED BY <1>4, <1>5, <1>6

\* Every extension gets its callbacks in order and one at a time, is never started once it
\* has been told to stop, and is deleted only after on_deinit_done, from whatever stage on
\* the engine may be closed, and wherever the proxy is released: the graph's life cycle
\* implements ExtensionLife.
THEOREM LifeIsKept == Spec => KeepsLife
<1>1. Init => Life!Init
  <2> SUFFICES ASSUME Init PROVE Life!Init
    OBVIOUS
  <2>1. \A x \in Extension : ext_state[x] = "none"
    BY DEF Init
  <2> QED BY <2>1 DEF Life!Init, LastCallback
<1>2. LifecycleInv /\ [Next]_vars => [Life!Next]_Life!life
  BY LifeContinues
<1> QED BY <1>1, <1>2, LifecycleCorrect, PTL DEF Spec, KeepsLife, Life!Spec

=============================================================================
