--------------------------- MODULE AppLifeProofs ---------------------------
(***************************************************************************)
(* Proofs about AppLife: an app is deinitialised when nothing is left, and *)
(* posts to its runloop succeed.                                           *)
(*                                                                         *)
(* The argument has two halves.  Until on_init the app is Fresh: nothing   *)
(* runs in it, and its runloop has at most the one task that carries the   *)
(* start on.  From then on (Later) six facts hold together: an engine is   *)
(* in the list until the task that reports its end is taken; a message for *)
(* the app has a living sender, whose end is reported behind the message;  *)
(* a client whose protocol is being created comes before the endpoint      *)
(* closes; the close task is posted once and taken before that; and after  *)
(* on_deinit nothing is left.  So nobody can add anything or post anything *)
(* then (NothingComes), and each report either finds something left or is  *)
(* the last.                                                               *)
(*                                                                         *)
(* Steps(took, posts) says what a step does to the tasks; each part of the *)
(* invariant is proved from that and from the few variables it is about.   *)
(***************************************************************************)
EXTENDS AppLife, FiniteSetTheorems, TaskQueues

-----------------------------------------------------------------------------
(* The values of the variables.                                            *)

LEMMA TaskKinds ==
    /\ <<"metadata">> \in Tasks /\ <<"loaders_created">> \in Tasks
    /\ <<"endpoint_created">> \in Tasks /\ <<"close">> \in Tasks
    /\ <<"proxy_released">> \in Tasks /\ <<"in_msgs">> \in Tasks
    /\ \A e \in Engine : <<"engine_closed", e>> \in Tasks
    /\ \A c \in Client : <<"client_created", c>> \in Tasks /\ <<"close_client", c>> \in Tasks
    /\ \A e \in Engine, t \in EngineTasks : <<"engine", e, t>> \in Tasks
BY DEF Tasks

LEMMA EngineTaskKinds ==
    /\ <<"close">> \in EngineTasks
    /\ \A r \in Engine : <<"stop", r>> \in EngineTasks
BY DEF EngineTasks

LEMMA MessageKinds ==
    /\ <<"close_app">> \in Messages
    /\ \A e \in Engine : <<"start_graph", e>> \in Messages
    /\ \A e, r \in Engine : <<"stop_graph", e, r>> \in Messages /\ <<"result", e, r>> \in Messages
BY DEF Messages

\* What posting does to the tasks: they are posted, or refused.
LEMMA PostTyped ==
    ASSUME NEW q \in Seq(Tasks), NEW ts \in Seq(Tasks), Post(q, ts)
    PROVE  tasks' \in Seq(Tasks)
BY Joined DEF Post

LEMMA TakesTyped ==
    ASSUME TypeOK, NEW t, NEW ts \in Seq(Tasks), Takes(t, ts)
    PROVE  tasks' \in Seq(Tasks) /\ draining' \in BOOLEAN /\ batch' \in Seq(Messages)
<1>1. tasks \in Seq(Tasks) /\ batch \in Seq(Messages)
  BY DEF TypeOK
<1>2. Tail(tasks) \in Seq(Tasks)
  BY <1>1, Tailed DEF Takes
<1>3. tasks' \in Seq(Tasks)
  BY <1>2, PostTyped DEF Takes
<1> QED BY <1>1, <1>3 DEF Takes

LEMMA PostToAppTyped ==
    ASSUME TypeOK, NEW ts \in Seq(Tasks), PostToApp(ts)
    PROVE  /\ tasks' \in Seq(Tasks) /\ draining' \in BOOLEAN
           /\ in_msgs' \in Seq(Messages) /\ batch' \in Seq(Messages)
BY PostTyped DEF PostToApp, TypeOK

LEMMA CloseTaskTyped == CloseTask \in Seq(Tasks)
BY TaskKinds DEF CloseTask

-----------------------------------------------------------------------------
(* Every variable keeps its type.                                          *)

QueuesOK ==
    /\ tasks \in Seq(Tasks)
    /\ draining \in BOOLEAN
    /\ in_msgs \in Seq(Messages) /\ batch \in Seq(Messages)

EngineQueuesOK == e_tasks \in [Engine -> Seq(EngineTasks)]

OthersOK ==
    /\ config \in [own_loop : BOOLEAN, long_running : BOOLEAN, endpoint : BOOLEAN]
    /\ state \in States
    /\ user \subseteq {"on_configure", "on_init", "on_deinit"}
    /\ deinits \in Nat
    /\ loop \in {"running", "stopping", "stopped"}
    /\ engines \subseteq Engine
    /\ e_state \in [Engine -> {"none", "running", "closing", "stopping", "closed"}]
    /\ cmd_stop_graph \in [Engine -> Engine \cup {NoOne}]
    /\ endpoint \in {"none", "listening", "closing", "closed"}
    /\ client \in [Client -> {"none", "accepted", "orphan", "left", "closing", "gone"}]
    /\ proxy \in {"none", "held", "released", "deleted"}
    /\ requests \in Nat
    /\ answered \subseteq Engine
    /\ told \in BOOLEAN
    /\ late \subseteq Engine \cup Client

LEMMA TypeParts == TypeOK <=> QueuesOK /\ EngineQueuesOK /\ OthersOK
BY DEF TypeOK, QueuesOK, EngineQueuesOK, OthersOK

LEMMA ProceedsTyped ==
    ASSUME OthersOK, Proceeds \/ ProceedsIfClosing
    PROVE  user' \subseteq {"on_configure", "on_init", "on_deinit"} /\ deinits' \in Nat
<1>1. \/ deinits' = deinits + 1 /\ user' = user \cup {"on_deinit"}
      \/ deinits' = deinits /\ user' = user
  BY Zenon DEF Proceeds, ProceedsIfClosing
<1>2. user' \subseteq {"on_configure", "on_init", "on_deinit"}
  BY <1>1 DEF OthersOK
<1>3. deinits' \in Nat
  BY <1>1 DEF OthersOK
<1> QED BY <1>2, <1>3

LEMMA ClosedTyped == ASSUME OthersOK PROVE Closed \in States
BY DEF Closed, OthersOK, States

LEMMA CreatesTyped ==
    ASSUME OthersOK, NEW es, es \subseteq Engine, Creates(es)
    PROVE  /\ engines' \subseteq Engine
           /\ e_state' \in [Engine -> {"none", "running", "closing", "stopping", "closed"}]
           /\ late' \subseteq Engine \cup Client
           /\ cmd_stop_graph' = cmd_stop_graph
BY DEF Creates, OthersOK

LEMMA OthersNext ==
    ASSUME OthersOK, [Next]_vars
    PROVE  OthersOK'
<1> USE DEF life, queues, engs, world, rest
<1>1. CASE TakeMetadata
  BY <1>1 DEF TakeMetadata, States, OthersOK
<1>2. CASE TakeProxyReleased
  BY <1>2 DEF TakeProxyReleased, Stops, OthersOK
<1>3. CASE TakeInMsgs
  BY <1>3 DEF TakeInMsgs, OthersOK
<1>4. CASE LoopEnds
  BY <1>4 DEF LoopEnds, OthersOK
<1>5. CASE OnConfigureDone
  BY <1>5 DEF OnConfigureDone, States, OthersOK
<1>6. CASE OnInitDone
  BY <1>6 DEF OnInitDone, States, OthersOK
<1>7. CASE OnDeinitDone
  BY <1>7 DEF OnDeinitDone, Stops, States, OthersOK
<1>8. CASE CloseApp \/ HandleCloseApp
  BY <1>8, ClosedTyped DEF CloseApp, HandleCloseApp, OthersOK
<1>9. CASE CreateProxy \/ ReleaseProxy
  BY <1>9 DEF CreateProxy, ReleaseProxy, OthersOK
<1>10. ASSUME NEW t, StartFails(t) PROVE OthersOK'
  BY <1>10, ClosedTyped DEF StartFails, OthersOK
<1>11. ASSUME StartsGraphs, endpoint' \in {endpoint, "listening"} PROVE OthersOK'
  <2>1. Creates(AutoStart) /\ AutoStart \subseteq Engine
    BY <1>11, AppLifeAssumption DEF StartsGraphs
  <2> QED BY <1>11, <2>1, CreatesTyped DEF StartsGraphs, States, OthersOK
<1>12. CASE TakeLoadersCreated
  BY <1>10, <1>11, <1>12 DEF TakeLoadersCreated, OthersOK
<1>13. CASE TakeEndpointCreated
  BY <1>10, <1>11, <1>13 DEF TakeEndpointCreated, OthersOK
<1>14. CASE TakeClose
  <2>1. client' \in [Client -> {"none", "accepted", "orphan", "left", "closing", "gone"}]
    BY <1>14 DEF TakeClose, CloseSync, OthersOK
  <2>2. endpoint' \in {"none", "listening", "closing", "closed"}
    BY <1>14 DEF TakeClose, CloseSync, OthersOK
  <2>3. user' \subseteq {"on_configure", "on_init", "on_deinit"} /\ deinits' \in Nat
    BY <1>14, ProceedsTyped DEF TakeClose, CloseSync, OthersOK
  <2> QED BY <1>14, <2>1, <2>2, <2>3 DEF TakeClose, OthersOK
<1>15. CASE EndpointClosed
  BY <1>15, ProceedsTyped DEF EndpointClosed, OthersOK
<1>16. ASSUME NEW e \in Engine, TakeEngineClosed(e) PROVE OthersOK'
  <2>1. state' \in States
    BY <1>16, ClosedTyped DEF TakeEngineClosed, OthersOK
  <2>2. user' \subseteq {"on_configure", "on_init", "on_deinit"} /\ deinits' \in Nat
    BY <1>16, ProceedsTyped DEF TakeEngineClosed
  <2>3. engines' \subseteq Engine /\ UNCHANGED <<loop, e_state, cmd_stop_graph, world, rest>>
    BY <1>16 DEF TakeEngineClosed, OthersOK
  <2> QED BY <2>1, <2>2, <2>3 DEF OthersOK
<1>17. ASSUME NEW e \in Engine, NEW r \in Engine, HandleStopGraph(e, r) PROVE OthersOK'
  BY <1>17 DEF HandleStopGraph, OthersOK
<1>18. ASSUME NEW e \in Engine, NEW r \in Engine, HandleResult(e, r) PROVE OthersOK'
  BY <1>18 DEF HandleResult, OthersOK
<1>19. ASSUME NEW e \in Engine, NEW r \in Engine, EngineTakesStop(e, r) PROVE OthersOK'
  BY <1>19 DEF EngineTakesStop, OthersOK
<1>20. ASSUME NEW e \in Engine, EngineTakesClose(e) \/ EngineStops(e) \/ EngineCloses(e)
       PROVE  OthersOK'
  <2>1. e_state' \in [Engine -> {"none", "running", "closing", "stopping", "closed"}]
    BY <1>20 DEF EngineTakesClose, EngineStops, EngineCloses, OthersOK
  <2>2. UNCHANGED <<life, engines, cmd_stop_graph, world, rest>>
    BY <1>20 DEF EngineTakesClose, EngineStops, EngineCloses
  <2> QED BY <2>1, <2>2 DEF OthersOK
<1>21. ASSUME NEW e \in Engine, StopItself(e) PROVE OthersOK'
  BY <1>21 DEF StopItself, OthersOK
<1>22. ASSUME NEW e \in Engine, HandleStartGraph(e) \/ AppStartsGraph(e) PROVE OthersOK'
  BY <1>22, CreatesTyped DEF HandleStartGraph, AppStartsGraph, OthersOK
<1>23. ASSUME NEW m, Sends(m) PROVE OthersOK'
  BY <1>23 DEF Sends, OthersOK
<1>24. ASSUME NEW e \in Engine, Send(e) PROVE OthersOK'
  BY <1>23, <1>24 DEF Send
<1>25. ASSUME NEW c \in Client,
              TakeClientCreated(c) \/ TakeCloseClient(c) \/ Accept(c) \/ ClientLeaves(c)
       PROVE  OthersOK'
  <2>1. CASE TakeClientCreated(c)
    BY <2>1 DEF TakeClientCreated, OthersOK
  <2>2. CASE TakeCloseClient(c)
    BY <2>2 DEF TakeCloseClient, OthersOK
  <2>3. CASE Accept(c) \/ ClientLeaves(c)
    BY <2>3 DEF Accept, ClientLeaves, OthersOK
  <2> QED BY <1>25, <2>1, <2>2, <2>3
<1>26. ASSUME NEW c \in Client, ClientClosed(c) \/ ClientClosesApp(c) PROVE OthersOK'
  <2>1. CASE ClientClosed(c)
    BY <2>1, ProceedsTyped DEF ClientClosed, OthersOK
  <2>2. CASE ClientClosesApp(c)
    BY <2>2, ClosedTyped DEF ClientClosesApp, OthersOK
  <2> QED BY <1>26, <2>1, <2>2
<1>27. ASSUME NEW c \in Client, NEW e \in Engine, ClientStartsGraph(c, e) PROVE OthersOK'
  BY <1>27, CreatesTyped DEF ClientStartsGraph, OthersOK
<1>28. CASE UNCHANGED vars
  BY <1>28 DEF vars, OthersOK
<1> QED
  BY <1>1, <1>2, <1>3, <1>4, <1>5, <1>6, <1>7, <1>8, <1>9, <1>12, <1>13, <1>14, <1>15, <1>16, <1>17,
     <1>18, <1>19, <1>20, <1>21, <1>22, <1>24, <1>25, <1>26, <1>27, <1>28
     DEF Next, AppThread, User, EngineThread, EngineEnds

\* An engine's tasks are in a queue of its own or among those of the app.
LEMMA EngineTaskTyped ==
    ASSUME TypeOK, NEW e \in Engine, NEW t, NEW ts \in Seq(EngineTasks), EngineTask(e, t, ts)
    PROVE  QueuesOK' /\ EngineQueuesOK'
<1>1. CASE config.own_loop
  <2>1. e_tasks[e] # <<>> /\ e_tasks[e] \in Seq(EngineTasks)
    BY <1>1 DEF EngineTask, TypeOK
  <2> DEFINE us == IF Ended(e) THEN <<>> ELSE ts
  <2>2. us \in Seq(EngineTasks) /\ Tail(e_tasks[e]) \in Seq(EngineTasks)
    BY <2>1, Tailed
  <2>3. e_tasks' = [e_tasks EXCEPT ![e] = Tail(e_tasks[e]) \o us] /\ UNCHANGED queues
    BY <1>1 DEF EngineTask
  <2>4. Tail(e_tasks[e]) \o us \in Seq(EngineTasks)
    BY <2>2, Joined
  <2>5. EngineQueuesOK'
    BY <2>3, <2>4 DEF EngineQueuesOK, TypeOK
  <2> QED BY <2>3, <2>5 DEF QueuesOK, TypeOK, queues
<1>2. CASE ~config.own_loop
  <2> DEFINE us == [i \in DOMAIN ts |-> <<"engine", e, ts[i]>>]
  <2>1. us \in Seq(Tasks)
    BY TaskKinds
  <2>2. Takes(<<"engine", e, t>>, us) /\ UNCHANGED <<e_tasks, in_msgs>>
    BY <1>2 DEF EngineTask
  <2> QED BY <2>1, <2>2, TakesTyped DEF QueuesOK, EngineQueuesOK, TypeOK
<1> QED BY <1>1, <1>2

LEMMA PostToEngineTyped ==
    ASSUME TypeOK, NEW e \in Engine, NEW t \in EngineTasks, PostToEngine(e, t, tasks)
    PROVE  tasks' \in Seq(Tasks) /\ EngineQueuesOK'
<1>1. tasks \in Seq(Tasks) /\ e_tasks \in [Engine -> Seq(EngineTasks)]
  BY DEF TypeOK
<1>2. <<>> \in Seq(Tasks) /\ <<<<"engine", e, t>>>> \in Seq(Tasks)
  BY TaskKinds
<1>3. tasks' \in Seq(Tasks)
  BY <1>1, <1>2, PostTyped DEF PostToEngine
<1>4. Append(e_tasks[e], t) \in Seq(EngineTasks)
  BY <1>1, AppendProperties
<1>5. e_tasks' \in [Engine -> Seq(EngineTasks)]
  BY <1>1, <1>4 DEF PostToEngine
<1> QED BY <1>3, <1>5 DEF EngineQueuesOK

LEMMA AnswerTyped ==
    ASSUME TypeOK, NEW e \in Engine
    PROVE  Answer(e) \in Seq(Messages)
<1>1. CASE cmd_stop_graph[e] \in {NoOne, e}
  BY <1>1 DEF Answer
<1>2. CASE cmd_stop_graph[e] \notin {NoOne, e}
  <2>1. <<"result", e, cmd_stop_graph[e]>> \in Messages
    BY <1>2, MessageKinds DEF TypeOK
  <2> QED BY <1>2, <2>1 DEF Answer
<1> QED BY <1>1, <1>2

LEMMA CloseSyncTyped ==
    ASSUME TypeOK, NEW q \in Orders(engines), CloseSync(q), UNCHANGED in_msgs
    PROVE  QueuesOK' /\ EngineQueuesOK'
<1>1. Cardinality(engines) \in Nat
  BY AppLifeAssumption, FS_Subset, FS_CardinalityType DEF TypeOK
<1>2. q \in [1..Cardinality(engines) -> Engine]
  BY DEF Orders, TypeOK
<1> DEFINE us == [i \in DOMAIN q |-> <<"engine", q[i], <<"close">>>>]
           ts == IF config.own_loop THEN <<>> ELSE us
<1>3. us \in [1..Cardinality(engines) -> Tasks]
  BY <1>2, TaskKinds, EngineTaskKinds
<1>4. us \in Seq(Tasks)
  BY <1>1, <1>3
<1>5. ts \in Seq(Tasks)
  BY <1>4
<1>6. Takes(<<"close">>, ts) /\ UNCHANGED in_msgs
  BY DEF CloseSync
<1>7. QueuesOK'
  BY <1>5, <1>6, TakesTyped DEF QueuesOK, TypeOK
<1>8. \A e \in Engine : e_tasks'[e] \in Seq(EngineTasks)
  <2> TAKE e \in Engine
  <2>1. e_tasks[e] \in Seq(EngineTasks) /\ Append(e_tasks[e], <<"close">>) \in Seq(EngineTasks)
    BY AppendProperties, EngineTaskKinds DEF TypeOK
  <2> QED BY <2>1 DEF CloseSync
<1> QED BY <1>7, <1>8 DEF EngineQueuesOK, CloseSync

LEMMA QueuesNext ==
    ASSUME TypeOK, [Next]_vars
    PROVE  QueuesOK' /\ EngineQueuesOK'
<1> DEFINE Goal == QueuesOK' /\ EngineQueuesOK'
<1> USE DEF queues, engs
<1>0. <<>> \in Seq(Tasks) /\ tasks \in Seq(Tasks) /\ CloseTask \in Seq(Tasks)
  BY CloseTaskTyped DEF TypeOK
<1>1. ASSUME NEW t, NEW ts \in Seq(Tasks), Takes(t, ts), UNCHANGED <<in_msgs, e_tasks>> PROVE Goal
  BY <1>1, TakesTyped DEF QueuesOK, EngineQueuesOK, TypeOK
<1>2. ASSUME NEW ts \in Seq(Tasks), PostToApp(ts), UNCHANGED e_tasks PROVE Goal
  BY <1>2, PostToAppTyped DEF QueuesOK, EngineQueuesOK, TypeOK
<1>3. ASSUME UNCHANGED <<queues, engs>> PROVE Goal
  BY <1>3 DEF QueuesOK, EngineQueuesOK, TypeOK
<1>4. CASE TakeMetadata
  BY <1>0, <1>1, <1>4 DEF TakeMetadata
<1>5. CASE TakeProxyReleased
  BY <1>0, <1>1, <1>5 DEF TakeProxyReleased
<1>6. CASE TakeInMsgs
  <2>1. tasks' \in Seq(Tasks) /\ in_msgs' \in Seq(Messages) /\ batch' \in Seq(Messages)
    BY <1>6, Tailed DEF TakeInMsgs, TypeOK
  <2> QED BY <1>6, <2>1 DEF TakeInMsgs, QueuesOK, EngineQueuesOK, TypeOK
<1>7. ASSUME NEW t, StartFails(t) PROVE Goal
  BY <1>0, <1>1, <1>7 DEF StartFails
<1>8. CASE TakeLoadersCreated
  <2>1. <<<<"endpoint_created">>>> \in Seq(Tasks)
    BY TaskKinds
  <2> QED BY <1>0, <1>1, <1>7, <1>8, <2>1 DEF TakeLoadersCreated, StartsGraphs, Creates
<1>9. CASE TakeEndpointCreated
  BY <1>0, <1>1, <1>7, <1>9 DEF TakeEndpointCreated, StartsGraphs, Creates
<1>10. CASE TakeClose
  BY <1>0, <1>1, <1>10, CloseSyncTyped DEF TakeClose
<1>11. CASE LoopEnds \/ EndpointClosed \/ OnInitDone \/ OnDeinitDone \/ CreateProxy
  BY <1>3, <1>11 DEF LoopEnds, EndpointClosed, OnInitDone, OnDeinitDone, CreateProxy
<1>12. CASE OnConfigureDone
  <2>1. <<<<"loaders_created">>>> \in Seq(Tasks)
    BY TaskKinds
  <2> QED BY <1>2, <1>3, <1>12, <2>1 DEF OnConfigureDone
<1>13. CASE CloseApp
  BY <1>0, <1>2, <1>13 DEF CloseApp
<1>14. CASE ReleaseProxy
  <2>1. <<<<"proxy_released">>>> \in Seq(Tasks)
    BY TaskKinds
  <2> QED BY <1>2, <1>14, <2>1 DEF ReleaseProxy
<1>15. ASSUME batch # <<>>, batch' = Tail(batch), StaysInTasks, NEW ts \in Seq(Tasks),
              Post(tasks, ts) \/ UNCHANGED tasks, UNCHANGED <<in_msgs, e_tasks>>
       PROVE  Goal
  <2>1. tasks' \in Seq(Tasks)
    BY <1>0, <1>15, PostTyped
  <2>2. batch' \in Seq(Messages)
    BY <1>15, Tailed DEF TypeOK
  <2> QED BY <1>15, <2>1, <2>2 DEF StaysInTasks, QueuesOK, EngineQueuesOK, TypeOK
<1>16. CASE HandleCloseApp
  BY <1>0, <1>15, <1>16 DEF HandleCloseApp, Handles
<1>17. ASSUME NEW e \in Engine, NEW r \in Engine, HandleStartGraph(e) \/ HandleResult(e, r)
       PROVE  Goal
  BY <1>0, <1>15, <1>17 DEF HandleStartGraph, HandleResult, Handles, Creates
<1>18. ASSUME NEW e \in Engine, NEW r \in Engine, HandleStopGraph(e, r) PROVE Goal
  <2>1. batch' \in Seq(Messages) /\ draining' \in BOOLEAN
    BY <1>18, Tailed DEF HandleStopGraph, Handles, StaysInTasks, TypeOK
  <2>2. in_msgs' \in Seq(Messages)
    <3>1. in_msgs \in Seq(Messages) /\ <<"result", e, r>> \in Messages
      BY MessageKinds DEF TypeOK
    <3>2. Append(in_msgs, <<"result", e, r>>) \in Seq(Messages)
      BY <3>1, AppendProperties
    <3> QED BY <1>18, <3>1, <3>2 DEF HandleStopGraph
  <2>3. <<<<"in_msgs">>>> \in Seq(Tasks)
    BY TaskKinds
  <2>4. <<"stop", r>> \in EngineTasks
    BY EngineTaskKinds
  <2>5. tasks' \in Seq(Tasks) /\ EngineQueuesOK'
    BY <1>0, <1>18, <2>3, <2>4, PostTyped, PostToEngineTyped
       DEF HandleStopGraph, EngineQueuesOK, TypeOK
  <2> QED BY <2>1, <2>2, <2>5 DEF QueuesOK
<1>19. ASSUME NEW e \in Engine, TakeEngineClosed(e) PROVE Goal
  <2>1. <<<<"in_msgs">>>> \in Seq(Tasks) /\ <<<<"in_msgs">>>> \o CloseTask \in Seq(Tasks)
    BY <1>0, TaskKinds, Joined
  <2>2. <<>> \o CloseTask \in Seq(Tasks)
    BY <1>0, Joined
  <2>3. \E ts \in Seq(Tasks) : Takes(<<"engine_closed", e>>, ts)
    BY <1>0, <1>19, <2>1, <2>2 DEF TakeEngineClosed
  <2>4. in_msgs' \in Seq(Messages)
    BY <1>19, AnswerTyped, Joined DEF TakeEngineClosed, TypeOK
  <2>5. UNCHANGED e_tasks
    BY <1>19 DEF TakeEngineClosed
  <2> QED BY <2>3, <2>4, <2>5, TakesTyped DEF QueuesOK, EngineQueuesOK, TypeOK
<1>20. ASSUME NEW e \in Engine, NEW r \in Engine, EngineTakesStop(e, r) \/ EngineTakesClose(e)
       PROVE  Goal
  <2>1. <<>> \in Seq(EngineTasks) /\ <<<<"close">>>> \in Seq(EngineTasks)
    BY EngineTaskKinds
  <2> QED BY <1>20, <2>1, EngineTaskTyped DEF EngineTakesStop, EngineTakesClose
<1>21. ASSUME NEW e \in Engine, EngineStops(e) PROVE Goal
  BY <1>21 DEF EngineStops, QueuesOK, EngineQueuesOK, TypeOK
<1>22. ASSUME NEW e \in Engine, EngineCloses(e) PROVE Goal
  <2>1. <<<<"engine_closed", e>>>> \in Seq(Tasks)
    BY TaskKinds
  <2> QED BY <1>2, <1>22, <2>1 DEF EngineCloses
<1>23. ASSUME NEW m \in Messages, Sends(m) PROVE Goal
  <2>1. <<<<"in_msgs">>>> \in Seq(Tasks)
    BY TaskKinds
  <2>2. tasks' \in Seq(Tasks) /\ in_msgs' \in Seq(Messages)
    BY <1>0, <1>23, <2>1, PostTyped, AppendProperties DEF Sends, TypeOK
  <2> QED BY <1>23, <2>2 DEF Sends, QueuesOK, EngineQueuesOK, TypeOK
<1>24. ASSUME NEW e \in Engine, Send(e) PROVE Goal
  BY <1>23, <1>24, MessageKinds DEF Send
<1>25. ASSUME NEW e \in Engine, StopItself(e) PROVE Goal
  <2>1. tasks' \in Seq(Tasks) /\ EngineQueuesOK'
    BY <1>25, EngineTaskKinds, PostToEngineTyped DEF StopItself
  <2> QED BY <1>25, <2>1 DEF StopItself, QueuesOK, TypeOK
<1>26. ASSUME NEW e \in Engine, AppStartsGraph(e) PROVE Goal
  BY <1>26 DEF AppStartsGraph, Creates, QueuesOK, EngineQueuesOK, TypeOK
<1>27. ASSUME NEW c \in Client, TakeClientCreated(c) \/ TakeCloseClient(c) PROVE Goal
  BY <1>0, <1>1, <1>27 DEF TakeClientCreated, TakeCloseClient
<1>28. ASSUME NEW c \in Client, Accept(c) \/ ClientLeaves(c) \/ ClientClosesApp(c) PROVE Goal
  <2>1. <<<<"client_created", c>>>> \in Seq(Tasks) /\ <<<<"close_client", c>>>> \in Seq(Tasks)
    BY TaskKinds
  <2> QED BY <1>0, <1>2, <1>28, <2>1 DEF Accept, ClientLeaves, ClientClosesApp
<1>29. ASSUME NEW c \in Client, ClientClosed(c) PROVE Goal
  BY <1>3, <1>29 DEF ClientClosed
<1>30. ASSUME NEW c \in Client, NEW e \in Engine, ClientStartsGraph(c, e) PROVE Goal
  BY <1>30 DEF ClientStartsGraph, Creates, QueuesOK, EngineQueuesOK, TypeOK
<1>31. CASE UNCHANGED vars
  BY <1>3, <1>31 DEF vars
<1> QED
  BY <1>4, <1>5, <1>6, <1>8, <1>9, <1>10, <1>11, <1>12, <1>13, <1>14, <1>16, <1>17, <1>18, <1>19,
     <1>20, <1>21, <1>22, <1>24, <1>25, <1>26, <1>27, <1>28, <1>29, <1>30, <1>31
     DEF Next, AppThread, User, EngineThread, EngineEnds

LEMMA TypeBegins == Init => TypeOK
<1> SUFFICES ASSUME Init PROVE TypeOK
  OBVIOUS
<1>1. tasks \in Seq(Tasks)
  BY TaskKinds DEF Init
<1>2. OthersOK
  BY AppLifeAssumption DEF Init, OthersOK, States, NoOne
<1>3. EngineQueuesOK
  BY DEF Init, EngineQueuesOK
<1>4. in_msgs = <<>> /\ batch = <<>> /\ draining = FALSE
  BY DEF Init
<1>5. <<>> \in Seq(Messages) /\ FALSE \in BOOLEAN
  OBVIOUS
<1>6. QueuesOK
  BY <1>1, <1>4, <1>5, Zenon DEF QueuesOK
<1> QED BY <1>2, <1>3, <1>6, TypeParts

LEMMA TypeNext == ASSUME TypeOK, [Next]_vars PROVE TypeOK'
<1>1. OthersOK'
  BY OthersNext, TypeParts
<1>2. QueuesOK' /\ EngineQueuesOK'
  BY QueuesNext
<1> QED BY <1>1, <1>2 DEF TypeOK, QueuesOK, EngineQueuesOK, OthersOK

\* Every variable keeps its type (TypeOK): no handler posts a task or a message of another
\* kind, and no state leaves its enumeration.
THEOREM TypeCorrect == Spec => []TypeOK
<1>1. TypeOK /\ [Next]_vars => TypeOK'
  BY TypeNext
<1> QED BY <1>1, TypeBegins, PTL DEF Spec

-----------------------------------------------------------------------------
(* What the tasks tell.                                                    *)

LEMMA PostHas ==
    ASSUME NEW q \in Seq(Tasks), NEW ts \in Seq(Tasks), Post(q, ts), NEW u
    PROVE  /\ Has(q, u) => Has(tasks', u)
           /\ Has(tasks', u) => Has(q, u) \/ (loop = "running" /\ Has(ts, u))
           /\ loop = "running" /\ Has(ts, u) => Has(tasks', u)
           /\ Once(q, u) /\ ~Has(ts, u) => Once(tasks', u)
           /\ ~Has(q, u) /\ Once(ts, u) => Once(tasks', u)
<1>1. CASE loop = "running"
  <2>1. tasks' = q \o ts
    BY <1>1 DEF Post
  <2>2. /\ Has(q \o ts, u) <=> Has(q, u) \/ Has(ts, u)
        /\ Once(q, u) /\ ~Has(ts, u) => Once(q \o ts, u)
        /\ ~Has(q, u) /\ Once(ts, u) => Once(q \o ts, u)
    BY HasJoined
  <2> QED BY <1>1, <2>1, <2>2
<1>2. CASE loop # "running"
  <2>1. tasks' = q
    BY <1>2 DEF Post
  <2>2. ~Has(q, u) => Once(q, u)
    BY DEF Has, Once
  <2> QED BY <1>2, <2>1, <2>2
<1> QED BY <1>1, <1>2

LEMMA TakesHas ==
    ASSUME tasks \in Seq(Tasks), NEW t, NEW ts \in Seq(Tasks), Takes(t, ts), NEW u
    PROVE  /\ Has(tasks, t)
           /\ Has(tasks, u) /\ u # t => Has(tasks', u)
           /\ Has(tasks', u) => Has(tasks, u) \/ (loop = "running" /\ Has(ts, u))
           /\ Has(tasks', t) /\ Once(tasks, t) => loop = "running" /\ Has(ts, t)
           /\ loop = "running" /\ Has(ts, u) => Has(tasks', u)
           /\ Once(tasks, u) /\ ~Has(ts, u) => Once(tasks', u)
           /\ ~Has(tasks, u) /\ Once(ts, u) => Once(tasks', u)
<1>1. tasks # <<>> /\ Head(tasks) = t /\ Post(Tail(tasks), ts) /\ Tail(tasks) \in Seq(Tasks)
  BY Tailed DEF Takes
<1>2. /\ Has(tasks, t)
      /\ Has(Tail(tasks), u) => Has(tasks, u)
      /\ Has(tasks, u) /\ u # t => Has(Tail(tasks), u)
      /\ Once(tasks, u) => Once(Tail(tasks), u)
      /\ Once(tasks, t) => ~Has(Tail(tasks), t)
  BY <1>1, HasTail
<1>3. /\ Has(Tail(tasks), u) => Has(tasks', u)
      /\ Has(tasks', u) => Has(Tail(tasks), u) \/ (loop = "running" /\ Has(ts, u))
      /\ Has(tasks', t) => Has(Tail(tasks), t) \/ (loop = "running" /\ Has(ts, t))
      /\ loop = "running" /\ Has(ts, u) => Has(tasks', u)
      /\ Once(Tail(tasks), u) /\ ~Has(ts, u) => Once(tasks', u)
      /\ ~Has(Tail(tasks), u) /\ Once(ts, u) => Once(tasks', u)
  BY <1>1, PostHas
<1> QED BY <1>2, <1>3

LEMMA TakesPrecedes ==
    ASSUME tasks \in Seq(Tasks), NEW t, NEW ts \in Seq(Tasks), Takes(t, ts), NEW a, NEW b,
           Precedes(tasks, a, b), t # a, Has(tasks, a) \/ ~Has(ts, b)
    PROVE  t # b /\ Precedes(tasks', a, b)
<1>1. tasks # <<>> /\ Head(tasks) = t /\ Post(Tail(tasks), ts) /\ Tail(tasks) \in Seq(Tasks)
  BY Tailed DEF Takes
<1>2. t # b /\ Precedes(Tail(tasks), a, b)
  BY <1>1, PrecedesTail
<1>3. Has(tasks, a) => Has(Tail(tasks), a)
  BY <1>1, HasTail
<1>4. Precedes(Tail(tasks) \o ts, a, b)
  BY <1>1, <1>2, <1>3, PrecedesJoined
<1> QED BY <1>1, <1>2, <1>4 DEF Post

\* The tasks that an invariant is about; the others come and go unnoticed.
Told(u) == u[1] \in {"metadata", "loaders_created", "endpoint_created", "close", "in_msgs",
                     "engine_closed", "client_created"}

Untold(q) == \A u \in Tasks : Has(q, u) => ~Told(u)

Heeds(q, e) == Precedes(q, <<"in_msgs">>, <<"engine_closed", e>>)

Quiet ==
    /\ \A u \in Tasks : Told(u) => /\ Has(tasks', u) <=> Has(tasks, u)
                                   /\ Once(tasks, u) => Once(tasks', u)
    /\ \A e \in Engine : Heeds(tasks, e) => Heeds(tasks', e)

LEMMA QuietTakes ==
    ASSUME tasks \in Seq(Tasks), NEW t \in Tasks, NEW ts \in Seq(Tasks), Takes(t, ts),
           ~Told(t), Untold(ts)
    PROVE  Quiet
<1>1. \A u \in Tasks : Told(u) => /\ Has(tasks', u) <=> Has(tasks, u)
                                  /\ Once(tasks, u) => Once(tasks', u)
  BY TakesHas DEF Untold
<1>2. ASSUME NEW e \in Engine, Heeds(tasks, e) PROVE Heeds(tasks', e)
  <2>1. Told(<<"in_msgs">>) /\ Told(<<"engine_closed", e>>) /\ <<"engine_closed", e>> \in Tasks
    BY TaskKinds DEF Told
  <2>2. t # <<"in_msgs">> /\ ~Has(ts, <<"engine_closed", e>>)
    BY <2>1 DEF Untold
  <2> QED BY <1>2, <2>2, TakesPrecedes DEF Heeds
<1>3. \A e \in Engine : Heeds(tasks, e) => Heeds(tasks', e)
  BY <1>2
<1> QED BY <1>1, <1>3 DEF Quiet

LEMMA QuietPosts ==
    ASSUME tasks \in Seq(Tasks), NEW ts \in Seq(Tasks), Post(tasks, ts), Untold(ts)
    PROVE  Quiet
<1>1. \A u \in Tasks : Told(u) => /\ Has(tasks', u) <=> Has(tasks, u)
                                  /\ Once(tasks, u) => Once(tasks', u)
  BY PostHas DEF Untold
<1>2. ASSUME NEW e \in Engine, Heeds(tasks, e) PROVE Heeds(tasks', e)
  <2>1. <<"engine_closed", e>> \in Tasks /\ Told(<<"engine_closed", e>>)
    BY TaskKinds DEF Told
  <2>2. ~Has(ts, <<"engine_closed", e>>)
    BY <2>1 DEF Untold
  <2> QED BY <1>2, <2>2, PrecedesJoined DEF Heeds, Post
<1>3. \A e \in Engine : Heeds(tasks, e) => Heeds(tasks', e)
  BY <1>2
<1> QED BY <1>1, <1>3 DEF Quiet

LEMMA QuietSame == UNCHANGED tasks => Quiet
BY DEF Quiet, Heeds

LEMMA UntoldKinds ==
    /\ Untold(<<>>)
    /\ ~Told(<<"proxy_released">>) /\ Untold(<<<<"proxy_released">>>>)
    /\ \A c \in Client : ~Told(<<"close_client", c>>) /\ Untold(<<<<"close_client", c>>>>)
    /\ \A e, t : ~Told(<<"engine", e, t>>) /\ Untold(<<<<"engine", e, t>>>>)
<1>1. ASSUME NEW t, ~Told(t) PROVE Untold(<<t>>)
  BY <1>1, HasNone, HasOne DEF Untold
<1>2. Untold(<<>>)
  BY HasNone, HasOne DEF Untold
<1>3. ~Told(<<"proxy_released">>)
  BY DEF Told
<1>4. \A c \in Client : ~Told(<<"close_client", c>>)
  BY DEF Told
<1>5. \A e, t : ~Told(<<"engine", e, t>>)
  BY DEF Told
<1> QED BY <1>1, <1>2, <1>3, <1>4, <1>5

LEMMA QuietEngineTask ==
    ASSUME TypeOK, NEW e \in Engine, NEW t \in EngineTasks, NEW ts \in Seq(EngineTasks),
           EngineTask(e, t, ts)
    PROVE  Quiet
<1>1. CASE config.own_loop
  BY <1>1, QuietSame DEF EngineTask, queues
<1>2. CASE ~config.own_loop
  <2> DEFINE us == [i \in DOMAIN ts |-> <<"engine", e, ts[i]>>]
  <2>1. us \in Seq(Tasks)
    BY TaskKinds
  <2>4. \A i \in DOMAIN us : ~Told(us[i])
    BY DEF Told
  <2>5. Untold(us)
    BY <2>4 DEF Untold, Has
  <2>2. Takes(<<"engine", e, t>>, us) /\ <<"engine", e, t>> \in Tasks
    BY <1>2, TaskKinds DEF EngineTask
  <2>3. ~Told(<<"engine", e, t>>) /\ tasks \in Seq(Tasks)
    BY UntoldKinds DEF TypeOK
  <2> HIDE DEF us
  <2> QED BY <2>1, <2>2, <2>3, <2>5, QuietTakes
<1> QED BY <1>1, <1>2

LEMMA QuietPostToEngine ==
    ASSUME TypeOK, NEW e \in Engine, NEW t \in EngineTasks, PostToEngine(e, t, tasks)
    PROVE  Quiet
<1>1. tasks \in Seq(Tasks) /\ <<>> \in Seq(Tasks) /\ <<<<"engine", e, t>>>> \in Seq(Tasks)
  BY TaskKinds DEF TypeOK
<1> QED BY <1>1, UntoldKinds, QuietPosts DEF PostToEngine
-----------------------------------------------------------------------------
(* The invariant.                                                          *)

\* The app has not been initialised yet: nothing runs in it, and its tasks are those of its
\* start alone.
Early == state \in {"INIT", "ON_CONFIGURE", "ON_CONFIGURE_DONE"}

Fresh ==
    /\ engines = {} /\ e_state = [e \in Engine |-> "none"] /\ e_tasks = [e \in Engine |-> <<>>]
    /\ client = [c \in Client |-> "none"]
    /\ in_msgs = <<>> /\ batch = <<>>
    /\ "on_init" \notin user /\ "on_deinit" \notin user /\ deinits = 0
    /\ endpoint = "none" /\ proxy = "none"
    /\ loop = "running" /\ refused = {}
    /\ state = "INIT" => tasks = <<<<"metadata">>>>
    /\ state = "ON_CONFIGURE" => tasks = <<>>
    /\ state = "ON_CONFIGURE_DONE" =>
           tasks = <<<<"loaders_created">>>> \/ tasks = <<<<"endpoint_created">>>>

\* The tasks of the start, which set the state whatever it is, are over.
StartOver ==
    \A u \in {<<"metadata">>, <<"loaders_created">>, <<"endpoint_created">>} : ~Has(tasks, u)

\* An engine is in the list as long as its end has not been taken note of, which happens once.
EnginesKnown ==
    /\ \A e \in Engine : e_state[e] \in {"running", "closing", "stopping"} => e \in engines
    /\ \A e \in Engine : Has(tasks, <<"engine_closed", e>>) => e \in engines /\ e_state[e] = "closed"
    /\ \A e \in Engine : Once(tasks, <<"engine_closed", e>>)

\* Some message in the queue asks the app for something.
Asks(q) == \E i \in DOMAIN q : q[i][1] # "result"

\* A message that is still to be handled was sent by an engine that is still in the list: its
\* end comes behind the task for the message.
MessagesHeard ==
    /\ in_msgs # <<>> /\ loop = "running" => Has(tasks, <<"in_msgs">>)
    /\ Asks(in_msgs) => \E r \in engines : Heeds(tasks, r)
    /\ Asks(batch) => engines # {}

\* The endpoint closes only after the clients whose protocols are being created have come.
ClientsComeFirst ==
    \A c \in Client : Has(tasks, <<"client_created", c>>) =>
        endpoint = "listening" \/ (endpoint = "closing" /\ draining)

\* The close task is posted once, and before the endpoint closes.
ClosesOnce ==
    /\ endpoint \in {"closing", "closed"} => IsClosing(state)
    /\ Has(tasks, <<"close">>) => IsClosing(state) /\ endpoint \in {"none", "listening"}
    /\ Once(tasks, <<"close">>)

NothingLeft == engines = {} /\ Orphans = {} /\ endpoint \in {"none", "closed"}

\* Once on_deinit has been called nothing is left, and nothing comes.
Deinited ==
    /\ deinits > 0 => IsClosing(state) /\ NothingLeft
    /\ "on_deinit" \in user \/ state = "ON_DEINIT_DONE" => deinits > 0
    /\ loop # "running" /\ proxy = "none" => state = "ON_DEINIT_DONE"

Later ==
    /\ StartOver
    /\ EnginesKnown
    /\ MessagesHeard
    /\ ClientsComeFirst
    /\ ClosesOnce
    /\ Deinited
    /\ NothingLeftMeansDeinit
    /\ DeinitOnce
    /\ PostsSucceedAlone

LifeInv == TypeOK /\ (Early => Fresh) /\ (~Early => Later)

\* No other thread closes the app while a task of its start is in the runloop: that task
\* would set the state back, and the close be lost (AppLifeEarly.cfg).  It may while
\* on_configure or on_init is under way, and afterwards; what runs in the app's own thread,
\* its clients, its commands and the end of its last engine, may close it whenever it runs.
ClosedInTime == CloseFrom \cap {"INIT", "ON_CONFIGURE_DONE"} = {}

-----------------------------------------------------------------------------
(* The start.                                                              *)

LEMMA EarlyTasks ==
    ASSUME TypeOK, Early, Fresh, NEW t, Has(tasks, t)
    PROVE  \/ t = <<"metadata">> /\ state = "INIT"
           \/ t = <<"loaders_created">> /\ state = "ON_CONFIGURE_DONE"
           \/ t = <<"endpoint_created">> /\ state = "ON_CONFIGURE_DONE"
<1>1. \A u : Has(<<u>>, t) => t = u
  BY HasNone, HasOne
<1>2. ~Has(<<>>, t)
  BY HasNone, HasOne
<1>3. CASE state = "INIT"
  BY <1>1, <1>3 DEF Fresh
<1>4. CASE state = "ON_CONFIGURE"
  BY <1>2, <1>4 DEF Fresh
<1>5. CASE state = "ON_CONFIGURE_DONE"
  BY <1>1, <1>5 DEF Fresh
<1> QED BY <1>3, <1>4, <1>5 DEF Early

LEMMA TailOne == ASSUME NEW u PROVE Tail(<<u>>) = <<>>
OBVIOUS

LEMMA EarlyTakes ==
    ASSUME TypeOK, Early, Fresh, NEW t, NEW ts \in Seq(Tasks), Takes(t, ts)
    PROVE  /\ \/ t = <<"metadata">> /\ state = "INIT"
              \/ t = <<"loaders_created">> /\ state = "ON_CONFIGURE_DONE"
              \/ t = <<"endpoint_created">> /\ state = "ON_CONFIGURE_DONE"
           /\ tasks' = ts /\ refused' = {}
<1>1. Has(tasks, t)
  BY TakesHas DEF TypeOK
<1>2. \/ t = <<"metadata">> /\ state = "INIT"
      \/ t = <<"loaders_created">> /\ state = "ON_CONFIGURE_DONE"
      \/ t = <<"endpoint_created">> /\ state = "ON_CONFIGURE_DONE"
  BY <1>1, EarlyTasks
<1>3. Tail(tasks) = <<>>
  BY <1>2, TailOne DEF Fresh
<1>4. <<>> \o ts = ts
  BY ConcatEmptySeq
<1> QED BY <1>2, <1>3, <1>4 DEF Takes, Post, Fresh

\* Before the app is initialised nothing happens but its start, and its close.
LEMMA EarlyOnly ==
    ASSUME TypeOK, Early, Fresh, [Next]_vars
    PROVE  \/ TakeMetadata \/ OnConfigureDone \/ TakeLoadersCreated \/ TakeEndpointCreated
           \/ CloseApp \/ UNCHANGED vars
<1> USE DEF Fresh
<1>0. <<>> \in Seq(Tasks) /\ tasks \in Seq(Tasks) /\ batch = <<>>
  BY DEF TypeOK
<1>1. ASSUME NEW t, NEW ts \in Seq(Tasks), Takes(t, ts),
             t \notin {<<"metadata">>, <<"loaders_created">>, <<"endpoint_created">>}
      PROVE  FALSE
  BY <1>1, EarlyTakes
<1>2. ~TakeClose
  <2> SUFFICES ASSUME TakeClose PROVE FALSE
    OBVIOUS
  <2>1. \E ts \in Seq(Tasks) : Takes(<<"close">>, ts)
    <3>1. ASSUME NEW q \in Orders(engines), CloseSync(q) PROVE \E ts \in Seq(Tasks) : Takes(<<"close">>, ts)
      <4>1. engines = {} /\ Cardinality(engines) = 0 /\ DOMAIN q = {}
        BY FS_EmptySet DEF Orders
      <4>2. [i \in DOMAIN q |-> <<"engine", q[i], <<"close">>>>] = <<>>
        BY <4>1
      <4> QED BY <1>0, <3>1, <4>2 DEF CloseSync
    <3> QED BY <1>0, <3>1 DEF TakeClose
  <2> QED BY <1>1, <2>1
<1>3. ~TakeProxyReleased
  BY <1>0, <1>1 DEF TakeProxyReleased
<1>4. ~TakeInMsgs
  <2>1. TakeInMsgs => Has(tasks, <<"in_msgs">>)
    BY <1>0, HasTail DEF TakeInMsgs
  <2> QED BY <2>1, EarlyTasks
<1>5. ~HandleCloseApp /\ ~LoopEnds /\ ~EndpointClosed /\ ~OnInitDone /\ ~OnDeinitDone
  BY DEF HandleCloseApp, Handles, LoopEnds, EndpointClosed, OnInitDone, OnDeinitDone
<1>6. ~CreateProxy /\ ~ReleaseProxy
  BY DEF CreateProxy, ReleaseProxy
<1>7. ASSUME NEW e \in Engine, NEW r \in Engine
      PROVE  /\ ~HandleStartGraph(e) /\ ~HandleStopGraph(e, r) /\ ~HandleResult(e, r)
             /\ ~EngineStops(e) /\ ~EngineCloses(e) /\ ~Send(e) /\ ~StopItself(e)
             /\ ~AppStartsGraph(e)
  BY <1>7 DEF HandleStartGraph, HandleStopGraph, HandleResult, Handles, EngineStops, EngineCloses,
              Send, StopItself, AppStartsGraph
<1>8. ASSUME NEW e \in Engine, TakeEngineClosed(e) PROVE FALSE
  <2>1. CloseTask \in Seq(Tasks) /\ <<<<"in_msgs">>>> \in Seq(Tasks)
    BY TaskKinds, CloseTaskTyped
  <2>2. <<>> \o CloseTask \in Seq(Tasks) /\ <<<<"in_msgs">>>> \o CloseTask \in Seq(Tasks)
    BY <1>0, <2>1, Joined
  <2>3. \E ts \in Seq(Tasks) : Takes(<<"engine_closed", e>>, ts)
    BY <1>0, <1>8, <2>1, <2>2 DEF TakeEngineClosed
  <2> QED BY <1>1, <2>3
<1>9. ASSUME NEW e \in Engine, NEW t, NEW ts \in Seq(EngineTasks), EngineTask(e, t, ts) PROVE FALSE
  <2> DEFINE us == [i \in DOMAIN ts |-> <<"engine", e, ts[i]>>]
  <2>1. us \in Seq(Tasks)
    BY TaskKinds
  <2>2. e_tasks[e] = <<>>
    OBVIOUS
  <2> QED BY <1>1, <1>9, <2>1, <2>2 DEF EngineTask
<1>10. ASSUME NEW e \in Engine, NEW r \in Engine PROVE ~EngineTakesStop(e, r) /\ ~EngineTakesClose(e)
  <2>1. <<>> \in Seq(EngineTasks) /\ <<<<"close">>>> \in Seq(EngineTasks)
    BY EngineTaskKinds
  <2> QED BY <1>9, <2>1 DEF EngineTakesStop, EngineTakesClose
<1>11. ASSUME NEW c \in Client
       PROVE  ~TakeClientCreated(c) /\ ~TakeCloseClient(c)
  BY <1>0, <1>1 DEF TakeClientCreated, TakeCloseClient
<1>12. ASSUME NEW c \in Client
       PROVE  /\ ~ClientClosed(c) /\ ~Accept(c) /\ ~ClientLeaves(c) /\ ~ClientClosesApp(c)
              /\ \A e \in Engine : ~ClientStartsGraph(c, e)
  BY DEF ClientClosed, Accept, ClientLeaves, ClientClosesApp, ClientStartsGraph
<1> QED
  BY <1>2, <1>3, <1>4, <1>5, <1>6, <1>7, <1>8, <1>10, <1>11, <1>12
     DEF Next, AppThread, User, EngineThread, EngineEnds

\* With nothing but perhaps a close task in the runloop, and nothing closed yet, all is well.
LEMMA LaterBegins ==
    ASSUME \/ tasks' = <<>> /\ state' = "ON_INIT"
           \/ tasks' = <<<<"close">>>> /\ state' = "CLOSING",
           \A e \in Engine : e_state'[e] \in {"running", "closing", "stopping"} => e \in engines',
           in_msgs' = <<>>, batch' = <<>>, endpoint' \in {"none", "listening"},
           "on_deinit" \notin user', deinits' = 0, loop' = "running", refused' = {}
    PROVE  Later'
<1> DEFINE c == <<"close">>
<1>9. tasks' = <<>> \/ tasks' = <<c>>
  OBVIOUS
<1> HIDE DEF c
<1>10. \A u : ~Has(<<>>, u) /\ Once(<<>>, u) /\ (Has(<<c>>, u) => u = c) /\ Once(<<c>>, u)
  BY HasNone, HasOne
<1>11. \A u : (Has(tasks', u) => u = c) /\ Once(tasks', u)
  BY <1>9, <1>10
<1>0. \A u : Has(tasks', u) => u = <<"close">>
  BY <1>11 DEF c
<1>1. \A u : Once(tasks', u)
  BY <1>11
<1>2. StartOver'
  BY <1>0 DEF StartOver
<1>3. EnginesKnown'
  BY <1>0, <1>1 DEF EnginesKnown
<1>4. MessagesHeard'
  BY DEF MessagesHeard, Asks
<1>5. ClientsComeFirst'
  BY <1>0 DEF ClientsComeFirst
<1>6. ClosesOnce'
  <2>1. Has(tasks', <<"close">>) => state' = "CLOSING"
    BY HasNone, HasOne
  <2> QED BY <1>1, <2>1 DEF ClosesOnce, IsClosing
<1>7. Deinited' /\ DeinitOnce' /\ PostsSucceedAlone'
  BY DEF Deinited, DeinitOnce, PostsSucceedAlone
<1>8. NothingLeftMeansDeinit'
  <2>1. state' = "CLOSING" => tasks' = <<<<"close">>>>
    OBVIOUS
  <2>2. tasks' = <<<<"close">>>> => 1 \in DOMAIN tasks' /\ tasks'[1] = <<"close">>
    OBVIOUS
  <2> QED BY <2>1, <2>2 DEF NothingLeftMeansDeinit
<1> QED BY <1>2, <1>3, <1>4, <1>5, <1>6, <1>7, <1>8 DEF Later

LEMMA EarlyNext ==
    ASSUME ClosedInTime, TypeOK, Early, Fresh, [Next]_vars
    PROVE  (Early' => Fresh') /\ (~Early' => Later')
<1> USE DEF life, queues, engs, world, rest
<1> DEFINE Goal == (Early' => Fresh') /\ (~Early' => Later')
<1>0. /\ <<>> \in Seq(Tasks) /\ CloseTask = <<<<"close">>>> /\ <<<<"close">>>> \in Seq(Tasks)
      /\ Closed = "CLOSING" /\ ~IsClosing(state) /\ loop = "running" /\ refused = {}
  BY TaskKinds DEF Early, CloseTask, Closed, IsClosing, Fresh
<1>1. CASE TakeMetadata
  <2>1. tasks' = <<>> /\ refused' = {}
    BY <1>0, <1>1, EarlyTakes DEF TakeMetadata
  <2>2. state' = "ON_CONFIGURE" /\ user' = user \cup {"on_configure"}
        /\ UNCHANGED <<deinits, loop, in_msgs, batch, engs, world>>
    BY <1>1 DEF TakeMetadata, Takes
  <2> QED BY <2>1, <2>2 DEF Early, Fresh
<1>2. CASE OnConfigureDone
  <2>1. user' \subseteq user /\ UNCHANGED <<deinits, loop, in_msgs, batch, engs, world>>
    BY <1>2 DEF OnConfigureDone, PostToApp
  <2>2. CASE state # "ON_CONFIGURE"
    BY <1>2, <2>1, <2>2 DEF OnConfigureDone, Early, Fresh
  <2>3. CASE state = "ON_CONFIGURE"
    <3>1. state' = "ON_CONFIGURE_DONE" /\ Post(tasks, <<<<"loaders_created">>>>) /\ tasks = <<>>
      BY <1>2, <2>3 DEF OnConfigureDone, PostToApp, Fresh
    <3>2. <<<<"loaders_created">>>> \in Seq(Tasks)
      BY TaskKinds
    <3>3. tasks' = <<<<"loaders_created">>>> /\ refused' = {}
      BY <1>0, <3>1, <3>2, ConcatEmptySeq DEF Post
    <3> QED BY <2>1, <3>1, <3>3 DEF Early, Fresh
  <2> QED BY <2>2, <2>3
<1>3. ASSUME tasks' = <<<<"close">>>>, refused' = {}, state' = "CLOSING",
             UNCHANGED <<user, deinits, loop, in_msgs, batch, engs, world>>
      PROVE  Goal
  <2>1. \A e \in Engine : e_state'[e] = "none"
    BY <1>3 DEF Fresh
  <2>2. Later'
    BY <1>3, <2>1, LaterBegins DEF Fresh
  <2> QED BY <1>3, <2>2 DEF Early
<1>4. CASE CloseApp
  <2>1. state = "ON_CONFIGURE" /\ tasks = <<>>
    BY <1>4 DEF CloseApp, ClosedInTime, Early, Fresh
  <2>2. Post(tasks, <<<<"close">>>>) /\ state' = "CLOSING"
    BY <1>0, <1>4 DEF CloseApp, PostToApp
  <2>3. tasks' = <<<<"close">>>> /\ refused' = {}
    BY <1>0, <2>1, <2>2, ConcatEmptySeq DEF Post
  <2>4. UNCHANGED <<user, deinits, loop, in_msgs, batch, engs, world>>
    BY <1>4 DEF CloseApp, PostToApp
  <2> QED BY <1>3, <2>2, <2>3, <2>4
<1>5. ASSUME NEW t, StartFails(t) PROVE Goal
  <2>1. tasks' = <<<<"close">>>> /\ refused' = {}
    BY <1>0, <1>5, EarlyTakes DEF StartFails
  <2>2. state' = "CLOSING" /\ UNCHANGED <<user, deinits, loop, in_msgs, batch, engs, world>>
    BY <1>0, <1>5 DEF StartFails, Takes
  <2> QED BY <1>3, <2>1, <2>2
<1>6. ASSUME NEW t, Takes(t, <<>>), StartsGraphs, endpoint' \in {"none", "listening"} PROVE Goal
  <2>1. tasks' = <<>> /\ refused' = {} /\ batch' = <<>>
    BY <1>0, <1>6, EarlyTakes DEF Takes, Fresh
  <2>2. state' = "ON_INIT" /\ user' = user \cup {"on_init"} /\ UNCHANGED <<deinits, loop, in_msgs>>
    BY <1>6 DEF StartsGraphs
  <2>3. \A e \in Engine : e_state'[e] \in {"running", "closing", "stopping"} => e \in engines'
    BY <1>6 DEF StartsGraphs, Creates, Fresh
  <2>4. Later'
    BY <1>6, <2>1, <2>2, <2>3, LaterBegins DEF Fresh
  <2> QED BY <2>2, <2>4 DEF Early
<1>7. CASE TakeLoadersCreated
  <2>1. ASSUME Takes(<<"loaders_created">>, <<<<"endpoint_created">>>>),
               UNCHANGED <<life, in_msgs, engs, world, rest>>
        PROVE  Goal
    <3>1. <<<<"endpoint_created">>>> \in Seq(Tasks)
      BY TaskKinds
    <3>4. <<"loaders_created">> # <<"metadata">>
      OBVIOUS
    <3>2. tasks' = <<<<"endpoint_created">>>> /\ refused' = {} /\ state = "ON_CONFIGURE_DONE"
      BY <2>1, <3>1, <3>4, EarlyTakes, Zenon
    <3>3. batch' = <<>>
      BY <2>1 DEF Takes, Fresh
    <3> QED BY <2>1, <3>2, <3>3 DEF Early, Fresh
  <2>2. endpoint = "none"
    BY DEF Fresh
  <2> QED BY <1>5, <1>6, <1>7, <2>1, <2>2 DEF TakeLoadersCreated
<1>8. CASE TakeEndpointCreated
  BY <1>5, <1>6, <1>8 DEF TakeEndpointCreated
<1>9. CASE UNCHANGED vars
  BY <1>9 DEF vars, Early, Fresh
<1> QED BY <1>1, <1>2, <1>4, <1>7, <1>8, <1>9, EarlyOnly

-----------------------------------------------------------------------------
(* What each action does to the tasks that the invariant tells of.         *)

Steps(took, posts) ==
    /\ \A u \in Tasks : Told(u) =>
          /\ Has(tasks', u) => Has(tasks, u) \/ (loop = "running" /\ u \in posts)
          /\ Has(tasks, u) /\ u \notin took => Has(tasks', u)
          /\ loop = "running" /\ u \in posts => Has(tasks', u)
          /\ u \in took => Has(tasks, u)
          /\ u \in took /\ u \notin posts /\ Once(tasks, u) => ~Has(tasks', u)
          /\ Once(tasks, u) /\ (u \notin posts \/ ~Has(tasks, u)) => Once(tasks', u)
    /\ \A e \in Engine :
          /\ Heeds(tasks, e)
          /\ <<"in_msgs">> \notin took
          /\ Has(tasks, <<"in_msgs">>) \/ loop # "running" \/ <<"engine_closed", e>> \notin posts
          => Heeds(tasks', e) /\ <<"engine_closed", e>> \notin took

LEMMA QuietSteps == ASSUME Quiet PROVE Steps({}, {})
BY DEF Quiet, Steps

LEMMA PostSteps ==
    ASSUME TypeOK, NEW ts \in Seq(Tasks), Post(tasks, ts), NEW posts,
           \A u \in Tasks : Told(u) => (Has(ts, u) <=> u \in posts),
           \A u \in Tasks : Told(u) => Once(ts, u)
    PROVE  Steps({}, posts)
<1>0. tasks \in Seq(Tasks)
  BY DEF TypeOK
<1>1. ASSUME NEW u \in Tasks, Told(u)
      PROVE  /\ Has(tasks', u) => Has(tasks, u) \/ (loop = "running" /\ u \in posts)
             /\ Has(tasks, u) => Has(tasks', u)
             /\ loop = "running" /\ u \in posts => Has(tasks', u)
             /\ Once(tasks, u) /\ (u \notin posts \/ ~Has(tasks, u)) => Once(tasks', u)
  BY <1>0, <1>1, PostHas
<1>2. ASSUME NEW e \in Engine, Heeds(tasks, e),
             Has(tasks, <<"in_msgs">>) \/ loop # "running" \/ <<"engine_closed", e>> \notin posts
      PROVE  Heeds(tasks', e)
  <2>1. Told(<<"engine_closed", e>>) /\ <<"engine_closed", e>> \in Tasks
    BY TaskKinds DEF Told
  <2>2. CASE loop = "running"
    <3>1. tasks' = tasks \o ts
      BY <2>2 DEF Post
    <3>2. Has(tasks, <<"in_msgs">>) \/ ~Has(ts, <<"engine_closed", e>>)
      BY <1>2, <2>1, <2>2
    <3> QED BY <1>0, <1>2, <3>1, <3>2, PrecedesJoined DEF Heeds
  <2>3. CASE loop # "running"
    BY <1>2, <2>3 DEF Post
  <2> QED BY <2>2, <2>3
<1> QED BY <1>1, <1>2 DEF Steps

LEMMA TakesSteps ==
    ASSUME TypeOK, NEW t \in Tasks, NEW ts \in Seq(Tasks), Takes(t, ts), Told(t), NEW posts,
           \A u \in Tasks : Told(u) => (Has(ts, u) <=> u \in posts),
           \A u \in Tasks : Told(u) => Once(ts, u)
    PROVE  Steps({t}, posts)
<1>0. tasks \in Seq(Tasks) /\ Has(tasks, t)
  BY TakesHas DEF TypeOK
<1>1. ASSUME NEW u \in Tasks, Told(u)
      PROVE  /\ Has(tasks', u) => Has(tasks, u) \/ (loop = "running" /\ u \in posts)
             /\ Has(tasks, u) /\ u # t => Has(tasks', u)
             /\ loop = "running" /\ u \in posts => Has(tasks', u)
             /\ u = t /\ u \notin posts /\ Once(tasks, u) => ~Has(tasks', u)
             /\ Once(tasks, u) /\ (u \notin posts \/ ~Has(tasks, u)) => Once(tasks', u)
  BY <1>0, <1>1, TakesHas
<1>2. ASSUME NEW e \in Engine, Heeds(tasks, e), <<"in_msgs">> # t,
             Has(tasks, <<"in_msgs">>) \/ loop # "running" \/ <<"engine_closed", e>> \notin posts
      PROVE  Heeds(tasks', e) /\ <<"engine_closed", e>> # t
  <2>1. Told(<<"engine_closed", e>>) /\ <<"engine_closed", e>> \in Tasks
    BY TaskKinds DEF Told
  <2>2. CASE Has(tasks, <<"in_msgs">>) \/ <<"engine_closed", e>> \notin posts
    <3>1. Has(tasks, <<"in_msgs">>) \/ ~Has(ts, <<"engine_closed", e>>)
      BY <2>1, <2>2
    <3> QED BY <1>0, <1>2, <3>1, TakesPrecedes DEF Heeds
  <2>3. CASE loop # "running"
    <3>1. tasks # <<>> /\ Head(tasks) = t /\ tasks' = Tail(tasks)
      BY <2>3 DEF Takes, Post
    <3> QED BY <1>0, <1>2, <3>1, PrecedesTail DEF Heeds
  <2> QED BY <1>2, <2>2, <2>3
<1> QED BY <1>0, <1>1, <1>2 DEF Steps

LEMMA ToldKinds ==
    /\ Told(<<"metadata">>) /\ Told(<<"loaders_created">>) /\ Told(<<"endpoint_created">>)
    /\ Told(<<"close">>) /\ Told(<<"in_msgs">>)
    /\ \A e \in Engine : Told(<<"engine_closed", e>>)
    /\ \A c \in Client : Told(<<"client_created", c>>)
BY DEF Told

LEMMA PostOne ==
    ASSUME TypeOK, NEW t \in Tasks, Post(tasks, <<t>>)
    PROVE  Steps({}, {t})
<1> DEFINE ts == <<t>>
<1>1. ts \in Seq(Tasks) /\ \A u : (Has(ts, u) <=> u = t) /\ Once(ts, u)
  BY HasOne
<1> HIDE DEF ts
<1>2. Post(tasks, ts)
  BY DEF ts
<1> QED BY <1>1, <1>2, PostSteps

LEMMA PostNone == ASSUME TypeOK, Post(tasks, <<>>) PROVE Steps({}, {})
<1> DEFINE ts == <<>>
<1>1. ts \in Seq(Tasks) /\ \A u : ~Has(ts, u) /\ Once(ts, u)
  BY HasNone
<1> HIDE DEF ts
<1>2. Post(tasks, ts)
  BY DEF ts
<1> QED BY <1>1, <1>2, PostSteps

LEMMA TakesOne ==
    ASSUME TypeOK, NEW t \in Tasks, Takes(t, <<>>), Told(t)
    PROVE  Steps({t}, {})
<1> DEFINE ts == <<>>
<1>1. ts \in Seq(Tasks) /\ \A u : ~Has(ts, u) /\ Once(ts, u)
  BY HasNone
<1> HIDE DEF ts
<1>2. Takes(t, ts)
  BY DEF ts
<1> QED BY <1>1, <1>2, TakesSteps

\* The close task, if ten_app_close() posts it.
Closes == IF IsClosing(state) THEN {} ELSE {<<"close">>}

LEMMA CloseTaskHas ==
    \A u : (Has(CloseTask, u) <=> u \in Closes) /\ Once(CloseTask, u)
BY HasNone, HasOne DEF CloseTask, Closes

LEMMA PostsClose ==
    ASSUME TypeOK, Post(tasks, CloseTask)
    PROVE  Steps({}, Closes)
BY CloseTaskTyped, CloseTaskHas, PostSteps

LEMMA TakeCloseSteps ==
    ASSUME TypeOK, TakeClose
    PROVE  Steps({<<"close">>}, {})
<1>1. <<"close">> \in Tasks /\ Told(<<"close">>)
  BY TaskKinds, ToldKinds
<1>2. ASSUME NEW q \in Orders(engines), CloseSync(q) PROVE Steps({<<"close">>}, {})
  <2> DEFINE us == [i \in DOMAIN q |-> <<"engine", q[i], <<"close">>>>]
             ts == IF config.own_loop THEN <<>> ELSE us
  <2>1. Cardinality(engines) \in Nat
    BY AppLifeAssumption, FS_Subset, FS_CardinalityType DEF TypeOK
  <2>2. q \in [1..Cardinality(engines) -> Engine]
    BY DEF Orders, TypeOK
  <2>7. us \in [1..Cardinality(engines) -> Tasks]
    BY <2>2, TaskKinds, EngineTaskKinds
  <2>3. us \in Seq(Tasks)
    BY <2>1, <2>7
  <2>4. \A i \in DOMAIN us : ~Told(us[i])
    BY DEF Told
  <2> HIDE DEF us
  <2>5. ts \in Seq(Tasks) /\ \A u \in Tasks : Told(u) => (Has(ts, u) <=> u \in {}) /\ Once(ts, u)
    BY <2>3, <2>4 DEF Has, Once
  <2>6. Takes(<<"close">>, ts)
    BY <1>2 DEF CloseSync, us
  <2> HIDE DEF ts
  <2> QED BY <1>1, <2>5, <2>6, TakesSteps
<1> QED BY <1>1, <1>2, TakesOne DEF TakeClose

LEMMA TakeEngineClosedSteps ==
    ASSUME TypeOK, NEW e \in Engine, TakeEngineClosed(e)
    PROVE  Steps({<<"engine_closed", e>>},
                 (IF Answer(e) = <<>> THEN {} ELSE {<<"in_msgs">>})
                 \cup (IF ~config.long_running /\ engines = {e} THEN Closes ELSE {}))
<1> DEFINE last == ~config.long_running /\ engines = {e}
           result == IF Answer(e) = <<>> THEN <<>> ELSE <<<<"in_msgs">>>>
           results == IF Answer(e) = <<>> THEN {} ELSE {<<"in_msgs">>}
           ts == IF last THEN result \o CloseTask ELSE result
           posts == results \cup (IF last THEN Closes ELSE {})
<1>1. <<"engine_closed", e>> \in Tasks /\ Told(<<"engine_closed", e>>)
  BY TaskKinds, ToldKinds
<1>2. result \in Seq(Tasks) /\ \A u : (Has(result, u) <=> u \in results) /\ Once(result, u)
  <2>1. CASE Answer(e) = <<>>
    BY <2>1, HasNone
  <2>2. CASE Answer(e) # <<>>
    <3> DEFINE m == <<"in_msgs">>
    <3>1. result = <<m>> /\ results = {m} /\ m \in Tasks
      BY <2>2, TaskKinds
    <3> HIDE DEF m, result, results
    <3>2. <<m>> \in Seq(Tasks) /\ \A u : (Has(<<m>>, u) <=> u = m) /\ Once(<<m>>, u)
      BY <3>1, HasOne
    <3> QED BY <3>1, <3>2
  <2> QED BY <2>1, <2>2
<1>3. <<"close">> \notin results /\ <<"in_msgs">> \notin Closes
  BY DEF Closes
<1> HIDE DEF result
<1>4. result \o CloseTask \in Seq(Tasks)
  BY <1>2, CloseTaskTyped, Joined
<1>5. ASSUME NEW u
      PROVE  (Has(result \o CloseTask, u) <=> u \in results \cup Closes) /\ Once(result \o CloseTask, u)
  <2>1. ~Has(result, u) \/ ~Has(CloseTask, u)
    BY <1>2, CloseTaskHas DEF Closes
  <2> QED BY <1>2, <2>1, CloseTaskTyped, CloseTaskHas, HasJoined
<1>6. ts \in Seq(Tasks) /\ \A u : (Has(ts, u) <=> u \in posts) /\ Once(ts, u)
  BY <1>2, <1>4, <1>5
<1>7. Takes(<<"engine_closed", e>>, ts)
  BY DEF TakeEngineClosed, result
<1> HIDE DEF ts
<1>8. Steps({<<"engine_closed", e>>}, posts)
  BY <1>1, <1>6, <1>7, TakesSteps
<1> QED BY <1>8

LEMMA TakeInMsgsSteps ==
    ASSUME TypeOK, TakeInMsgs
    PROVE  Steps({<<"in_msgs">>}, {})
<1>1. tasks \in Seq(Tasks) /\ tasks # <<>> /\ Head(tasks) = <<"in_msgs">> /\ tasks' = Tail(tasks)
  BY DEF TakeInMsgs, TypeOK
<1>2. ASSUME NEW u
      PROVE  /\ Has(tasks', u) => Has(tasks, u)
             /\ Has(tasks, u) /\ u # <<"in_msgs">> => Has(tasks', u)
             /\ u = <<"in_msgs">> => Has(tasks, u)
             /\ u = <<"in_msgs">> /\ Once(tasks, u) => ~Has(tasks', u)
             /\ Once(tasks, u) => Once(tasks', u)
  <2> DEFINE m == <<"in_msgs">>
  <2>1. Head(tasks) = m
    BY <1>1
  <2> HIDE DEF m
  <2>2. /\ Has(tasks', u) => Has(tasks, u)
        /\ Has(tasks, u) /\ u # m => Has(tasks', u)
        /\ u = m => Has(tasks, u)
        /\ u = m /\ Once(tasks, u) => ~Has(tasks', u)
        /\ Once(tasks, u) => Once(tasks', u)
    BY <1>1, <2>1, HasTail
  <2> QED BY <2>2 DEF m
<1> QED BY <1>2 DEF Steps

-----------------------------------------------------------------------------
(* An app that has been initialised.                                       *)

QuietInApp ==
    \/ TakeProxyReleased \/ ReleaseProxy \/ CreateProxy
    \/ LoopEnds \/ EndpointClosed
    \/ OnConfigureDone \/ OnInitDone \/ OnDeinitDone

QuietInEngine(e) ==
    \/ HandleStartGraph(e) \/ AppStartsGraph(e) \/ StopItself(e) \/ EngineStops(e)
    \/ EngineTakesClose(e) \/ \E r \in Engine : EngineTakesStop(e, r) \/ HandleResult(e, r)

QuietInClient(c) ==
    \/ TakeCloseClient(c) \/ ClientLeaves(c) \/ ClientClosed(c)
    \/ \E e \in Engine : ClientStartsGraph(c, e)

LEMMA LateCases ==
    ASSUME TypeOK, Later, [Next]_vars
    PROVE  \/ QuietInApp \/ UNCHANGED vars
           \/ TakeClose \/ TakeInMsgs \/ CloseApp \/ HandleCloseApp
           \/ \E e \in Engine : \/ QuietInEngine(e)
                                \/ TakeEngineClosed(e) \/ EngineCloses(e) \/ Send(e)
                                \/ \E r \in Engine : HandleStopGraph(e, r)
           \/ \E c \in Client : \/ QuietInClient(c)
                                \/ Accept(c) \/ TakeClientCreated(c) \/ ClientClosesApp(c)
<1>1. ASSUME NEW t \in {<<"metadata">>, <<"loaders_created">>, <<"endpoint_created">>},
             NEW ts \in Seq(Tasks), Takes(t, ts)
      PROVE  FALSE
  BY <1>1, TakesHas DEF Later, StartOver, TypeOK
<1>2. /\ <<>> \in Seq(Tasks) /\ CloseTask \in Seq(Tasks) /\ <<<<"endpoint_created">>>> \in Seq(Tasks)
  BY TaskKinds, CloseTaskTyped
<1>3. ~TakeMetadata
  BY <1>1, <1>2 DEF TakeMetadata
<1>4. ~TakeLoadersCreated
  BY <1>1, <1>2 DEF TakeLoadersCreated, StartFails
<1>5. ~TakeEndpointCreated
  BY <1>1, <1>2 DEF TakeEndpointCreated, StartFails
<1> QED
  BY <1>3, <1>4, <1>5
     DEF Next, AppThread, User, EngineThread, EngineEnds, QuietInApp, QuietInEngine, QuietInClient

LEMMA QuietActions ==
    ASSUME TypeOK, ~Early,
           \/ QuietInApp \/ UNCHANGED vars
           \/ \E e \in Engine : QuietInEngine(e)
           \/ \E c \in Client : QuietInClient(c)
    PROVE  Steps({}, {})
<1> USE DEF queues
<1>9. <<"proxy_released">> \in Tasks /\ \A c \in Client : <<"close_client", c>> \in Tasks
  BY TaskKinds
<1>8. \A t \in Tasks : <<t>> \in Seq(Tasks)
  OBVIOUS
<1>0. /\ <<>> \in Seq(Tasks) /\ tasks \in Seq(Tasks) /\ state # "ON_CONFIGURE"
      /\ <<"proxy_released">> \in Tasks /\ <<<<"proxy_released">>>> \in Seq(Tasks)
      /\ \A c \in Client : <<<<"close_client", c>>>> \in Seq(Tasks) /\ <<"close_client", c>> \in Tasks
  BY <1>8, <1>9 DEF TypeOK, Early
<1>1. UNCHANGED tasks => Steps({}, {})
  BY QuietSame, QuietSteps
<1>2. CASE TakeProxyReleased
  BY <1>0, <1>2, UntoldKinds, QuietTakes, QuietSteps DEF TakeProxyReleased
<1>3. CASE ReleaseProxy
  BY <1>0, <1>3, UntoldKinds, QuietPosts, QuietSteps DEF ReleaseProxy, PostToApp
<1>4. CASE CreateProxy \/ LoopEnds \/ EndpointClosed \/ OnConfigureDone \/ OnInitDone \/ OnDeinitDone
  BY <1>0, <1>1, <1>4
     DEF CreateProxy, LoopEnds, EndpointClosed, OnConfigureDone, OnInitDone, OnDeinitDone
<1>5. ASSUME NEW e \in Engine, QuietInEngine(e) PROVE Steps({}, {})
  <2>1. CASE HandleStartGraph(e) \/ AppStartsGraph(e) \/ EngineStops(e)
             \/ \E r \in Engine : HandleResult(e, r)
    BY <1>1, <2>1 DEF HandleStartGraph, AppStartsGraph, EngineStops, HandleResult
  <2>2. CASE StopItself(e)
    BY <2>2, EngineTaskKinds, QuietPostToEngine, QuietSteps DEF StopItself
  <2>3. <<>> \in Seq(EngineTasks) /\ <<<<"close">>>> \in Seq(EngineTasks)
    BY EngineTaskKinds
  <2>4. CASE EngineTakesClose(e)
    BY <2>3, <2>4, EngineTaskKinds, QuietEngineTask, QuietSteps DEF EngineTakesClose
  <2>5. CASE \E r \in Engine : EngineTakesStop(e, r)
    BY <2>3, <2>5, EngineTaskKinds, QuietEngineTask, QuietSteps DEF EngineTakesStop
  <2> QED BY <1>5, <2>1, <2>2, <2>4, <2>5 DEF QuietInEngine
<1>6. ASSUME NEW c \in Client, QuietInClient(c) PROVE Steps({}, {})
  <2>1. CASE ClientClosed(c) \/ \E e \in Engine : ClientStartsGraph(c, e)
    BY <1>1, <2>1 DEF ClientClosed, ClientStartsGraph
  <2>2. CASE TakeCloseClient(c)
    BY <1>0, <2>2, UntoldKinds, QuietTakes, QuietSteps DEF TakeCloseClient
  <2>3. CASE ClientLeaves(c)
    BY <1>0, <2>3, UntoldKinds, QuietPosts, QuietSteps DEF ClientLeaves, PostToApp
  <2> QED BY <1>6, <2>1, <2>2, <2>3 DEF QuietInClient
<1>7. CASE UNCHANGED vars
  BY <1>1, <1>7 DEF vars
<1> QED BY <1>2, <1>3, <1>4, <1>5, <1>6, <1>7 DEF QuietInApp

LEMMA OtherActions ==
    ASSUME TypeOK
    PROVE  /\ CloseApp \/ HandleCloseApp \/ (\E c \in Client : ClientClosesApp(c)) => Steps({}, Closes)
           /\ \A e \in Engine : EngineCloses(e) => Steps({}, {<<"engine_closed", e>>})
           /\ \A e \in Engine : Send(e) => Steps({}, {<<"in_msgs">>})
           /\ \A e, r \in Engine : HandleStopGraph(e, r) =>
                 IF e \in engines THEN Steps({}, {}) ELSE Steps({}, {<<"in_msgs">>})
           /\ \A c \in Client : Accept(c) => Steps({}, {<<"client_created", c>>})
           /\ \A c \in Client : TakeClientCreated(c) => Steps({<<"client_created", c>>}, {})
<1>1. CloseApp \/ HandleCloseApp \/ (\E c \in Client : ClientClosesApp(c)) => Steps({}, Closes)
  BY PostsClose DEF CloseApp, HandleCloseApp, ClientClosesApp, PostToApp
<1>2. ASSUME NEW e \in Engine, EngineCloses(e) PROVE Steps({}, {<<"engine_closed", e>>})
  BY <1>2, TaskKinds, PostOne DEF EngineCloses, PostToApp
<1>3. ASSUME NEW m, Sends(m) PROVE Steps({}, {<<"in_msgs">>})
  BY <1>3, TaskKinds, PostOne DEF Sends
<1>4. ASSUME NEW e \in Engine, Send(e) PROVE Steps({}, {<<"in_msgs">>})
  BY <1>3, <1>4 DEF Send
<1>5. ASSUME NEW e \in Engine, NEW r \in Engine, HandleStopGraph(e, r)
      PROVE  IF e \in engines THEN Steps({}, {}) ELSE Steps({}, {<<"in_msgs">>})
  BY <1>5, TaskKinds, EngineTaskKinds, PostOne, QuietPostToEngine, QuietSteps DEF HandleStopGraph
<1>6. ASSUME NEW c \in Client, Accept(c) PROVE Steps({}, {<<"client_created", c>>})
  BY <1>6, TaskKinds, PostOne DEF Accept, PostToApp
<1>7. ASSUME NEW c \in Client, TakeClientCreated(c) PROVE Steps({<<"client_created", c>>}, {})
  BY <1>7, TaskKinds, ToldKinds, TakesOne DEF TakeClientCreated
<1> QED BY <1>1, <1>2, <1>4, <1>5, <1>6, <1>7

\* A closing app stays so, and one that is initialised does not start again.
LEMMA LateState ==
    ASSUME TypeOK, ~Early, Later, [Next]_vars
    PROVE  /\ ~Early'
           /\ state = "CLOSING" => state' \in {"CLOSING", "ON_DEINIT_DONE"}
           /\ state = "ON_DEINIT_DONE" => state' = state
<1> USE DEF life
<1> DEFINE Goal == /\ ~Early'
                   /\ state = "CLOSING" => state' \in {"CLOSING", "ON_DEINIT_DONE"}
                   /\ state = "ON_DEINIT_DONE" => state' = state
<1>1. ASSUME state' = state \/ state' = Closed PROVE Goal
  BY <1>1 DEF Early, Closed, IsClosing
<1>2. CASE QuietInApp
  <2>1. CASE OnConfigureDone \/ OnInitDone \/ OnDeinitDone
    BY <2>1 DEF OnConfigureDone, OnInitDone, OnDeinitDone, Early
  <2> QED BY <1>1, <1>2, <2>1
          DEF QuietInApp, TakeProxyReleased, ReleaseProxy, CreateProxy, LoopEnds, EndpointClosed
<1>3. CASE TakeClose \/ TakeInMsgs \/ CloseApp \/ HandleCloseApp \/ UNCHANGED vars
  BY <1>1, <1>3 DEF TakeClose, TakeInMsgs, CloseApp, HandleCloseApp, vars
<1>4. ASSUME NEW e \in Engine, QuietInEngine(e) PROVE Goal
  BY <1>1, <1>4 DEF QuietInEngine, HandleStartGraph, AppStartsGraph, StopItself, EngineStops,
                    EngineTakesClose, EngineTakesStop, HandleResult
<1>5. ASSUME NEW e \in Engine, NEW r \in Engine,
             TakeEngineClosed(e) \/ EngineCloses(e) \/ HandleStopGraph(e, r)
      PROVE  Goal
  BY <1>1, <1>5 DEF TakeEngineClosed, EngineCloses, HandleStopGraph
<1>6. ASSUME NEW e \in Engine, Send(e) PROVE Goal
  BY <1>1, <1>6 DEF Send, Sends
<1>7. ASSUME NEW c \in Client,
             QuietInClient(c) \/ Accept(c) \/ TakeClientCreated(c) \/ ClientClosesApp(c)
      PROVE  Goal
  BY <1>1, <1>7 DEF QuietInClient, Accept, TakeClientCreated, ClientClosesApp, TakeCloseClient,
                    ClientLeaves, ClientClosed, ClientStartsGraph
<1> QED BY <1>2, <1>3, <1>4, <1>5, <1>6, <1>7, LateCases

-----------------------------------------------------------------------------
(* The parts of the invariant, one at a time.                              *)

\* Engines come, go on closing, and leave with the task that tells of their end.
LEMMA EnginesStay ==
    ASSUME TypeOK, EnginesKnown, NEW took, NEW posts, Steps(took, posts),
           \A e \in Engine : <<"engine_closed", e>> \notin posts,
           engines \subseteq engines',
           \A e \in Engine : \/ e_state'[e] = e_state[e]
                             \/ e_state[e] \in {"running", "closing"}
                                /\ e_state'[e] \in {"running", "closing", "stopping"}
                             \/ e_state[e] = "none" /\ e \in engines'
    PROVE  EnginesKnown'
<1>1. ASSUME NEW e \in Engine
      PROVE  /\ Has(tasks', <<"engine_closed", e>>) => Has(tasks, <<"engine_closed", e>>)
             /\ Once(tasks, <<"engine_closed", e>>) => Once(tasks', <<"engine_closed", e>>)
  <2>1. <<"engine_closed", e>> \in Tasks /\ Told(<<"engine_closed", e>>)
    BY TaskKinds, ToldKinds
  <2> QED BY <2>1 DEF Steps
<1>2. ASSUME NEW e \in Engine, e_state'[e] \in {"running", "closing", "stopping"} PROVE e \in engines'
  BY <1>2 DEF EnginesKnown
<1>3. ASSUME NEW e \in Engine, Has(tasks', <<"engine_closed", e>>)
      PROVE  e \in engines' /\ e_state'[e] = "closed"
  BY <1>1, <1>3 DEF EnginesKnown
<1> QED BY <1>1, <1>2, <1>3 DEF EnginesKnown

LEMMA LateEngines ==
    ASSUME TypeOK, ~Early, Later, [Next]_vars
    PROVE  EnginesKnown'
<1> USE DEF engs
<1>0. EnginesKnown /\ \A e \in Engine : <<"engine_closed", e>> \notin {<<"in_msgs">>} \cup Closes
  BY DEF Later, Closes
<1>1. ASSUME NEW took, NEW posts, Steps(took, posts), UNCHANGED <<engines, e_state>>,
             \A e \in Engine : <<"engine_closed", e>> \notin posts
      PROVE  EnginesKnown'
  BY <1>0, <1>1, EnginesStay
<1>2. ASSUME Steps({}, {}), NEW e \in Engine, Creates({e}), e_state[e] = "none" PROVE EnginesKnown'
  <2>1. engines \subseteq engines' /\ \A f \in Engine : e_state'[f] = e_state[f] \/ f = e
    BY <1>2 DEF Creates, TypeOK
  <2>2. e \in engines'
    BY <1>2 DEF Creates
  <2> QED BY <1>0, <1>2, <2>1, <2>2, EnginesStay
<1>3. CASE QuietInApp \/ UNCHANGED vars
  <2>1. UNCHANGED <<engines, e_state>>
    BY <1>3 DEF QuietInApp, TakeProxyReleased, ReleaseProxy, CreateProxy, LoopEnds, EndpointClosed,
                OnConfigureDone, OnInitDone, OnDeinitDone, vars
  <2> QED BY <1>1, <1>3, <2>1, QuietActions
<1>4. CASE TakeClose \/ TakeInMsgs
  <2>1. UNCHANGED <<engines, e_state>>
    BY <1>4 DEF TakeClose, TakeInMsgs
  <2> QED BY <1>1, <1>4, <2>1, TakeCloseSteps, TakeInMsgsSteps
<1>5. CASE CloseApp \/ HandleCloseApp \/ \E c \in Client : ClientClosesApp(c)
  <2>1. UNCHANGED <<engines, e_state>>
    BY <1>5 DEF CloseApp, HandleCloseApp, ClientClosesApp
  <2> QED BY <1>0, <1>1, <1>5, <2>1, OtherActions
<1>6. ASSUME NEW e \in Engine, QuietInEngine(e) PROVE EnginesKnown'
  <2>0. Steps({}, {})
    BY <1>6, QuietActions
  <2>1. CASE HandleStartGraph(e) \/ AppStartsGraph(e)
    BY <1>1, <1>2, <2>0, <2>1 DEF HandleStartGraph, AppStartsGraph
  <2>2. CASE EngineTakesClose(e) \/ EngineStops(e)
    <3>1. engines' = engines
      BY <2>2 DEF EngineTakesClose, EngineStops
    <3>2. \A f \in Engine : \/ e_state'[f] = e_state[f]
                            \/ e_state[f] \in {"running", "closing"}
                               /\ e_state'[f] \in {"running", "closing", "stopping"}
      BY <2>2 DEF EngineTakesClose, EngineStops, TypeOK
    <3> QED BY <1>0, <2>0, <3>1, <3>2, EnginesStay
  <2>3. CASE StopItself(e) \/ \E r \in Engine : EngineTakesStop(e, r) \/ HandleResult(e, r)
    <3>1. UNCHANGED <<engines, e_state>>
      BY <2>3 DEF StopItself, EngineTakesStop, HandleResult
    <3> QED BY <1>1, <2>0, <3>1
  <2> QED BY <1>6, <2>1, <2>2, <2>3 DEF QuietInEngine
<1>7. ASSUME NEW e \in Engine, TakeEngineClosed(e) PROVE EnginesKnown'
  <2> DEFINE t(f) == <<"engine_closed", f>>
  <2>1. PICK posts : Steps({t(e)}, posts) /\ \A f \in Engine : t(f) \notin posts
    BY <1>0, <1>7, TakeEngineClosedSteps
  <2>2. \A f \in Engine : t(f) \in Tasks /\ Told(t(f)) /\ (t(f) = t(e) => f = e)
    BY TaskKinds, ToldKinds
  <2>3. ASSUME NEW f \in Engine
        PROVE  /\ Has(tasks', t(f)) => Has(tasks, t(f))
               /\ Once(tasks, t(f)) => Once(tasks', t(f))
               /\ t(f) = t(e) => Has(tasks, t(f)) /\ ~Has(tasks', t(f))
    <3>1. Once(tasks, t(f))
      BY <1>0 DEF EnginesKnown
    <3> HIDE DEF t
    <3> QED BY <2>1, <2>2, <3>1 DEF Steps
  <2>4. engines' = engines \ {e} /\ e_state' = e_state
    BY <1>7 DEF TakeEngineClosed
  <2>5. Has(tasks, t(e)) /\ ~Has(tasks', t(e))
    BY <2>3
  <2>6. e_state[e] = "closed"
    BY <1>0, <2>5 DEF EnginesKnown
  <2>7. ASSUME NEW f \in Engine, e_state'[f] \in {"running", "closing", "stopping"} PROVE f \in engines'
    BY <1>0, <2>4, <2>6, <2>7 DEF EnginesKnown
  <2>8. ASSUME NEW f \in Engine, Has(tasks', t(f)) PROVE f \in engines' /\ e_state'[f] = "closed"
    <3>1. f # e /\ Has(tasks, t(f))
      BY <2>3, <2>5, <2>8
    <3> QED BY <1>0, <2>4, <3>1 DEF EnginesKnown
  <2>9. \A f \in Engine : Once(tasks', t(f))
    BY <1>0, <2>3 DEF EnginesKnown
  <2> QED BY <2>7, <2>8, <2>9 DEF EnginesKnown
<1>8. ASSUME NEW e \in Engine, EngineCloses(e) PROVE EnginesKnown'
  <2> DEFINE t(f) == <<"engine_closed", f>>
  <2>1. Steps({}, {t(e)})
    BY <1>8, OtherActions
  <2>2. \A f \in Engine : t(f) \in Tasks /\ Told(t(f)) /\ (t(f) = t(e) => f = e)
    BY TaskKinds, ToldKinds
  <2>3. engines' = engines /\ e_state' = [e_state EXCEPT ![e] = "closed"]
        /\ e_state[e] \in {"closing", "stopping"}
    BY <1>8 DEF EngineCloses
  <2>4. e \in engines /\ ~Has(tasks, t(e))
    BY <1>0, <2>3 DEF EnginesKnown
  <2>5. ASSUME NEW f \in Engine
        PROVE  /\ Has(tasks', t(f)) => Has(tasks, t(f)) \/ f = e
               /\ Once(tasks, t(f)) => Once(tasks', t(f))
    <3>1. t(f) = t(e) => f = e
      BY <2>2
    <3>2. t(f) \in {t(e)} => f = e
      BY <3>1
    <3> HIDE DEF t
    <3> QED BY <2>1, <2>2, <2>4, <3>2 DEF Steps
  <2>6. ASSUME NEW f \in Engine, e_state'[f] \in {"running", "closing", "stopping"} PROVE f \in engines'
    BY <1>0, <2>3, <2>6 DEF EnginesKnown, TypeOK
  <2>7. ASSUME NEW f \in Engine, Has(tasks', t(f)) PROVE f \in engines' /\ e_state'[f] = "closed"
    BY <1>0, <2>3, <2>4, <2>5, <2>7 DEF EnginesKnown, TypeOK
  <2>8. \A f \in Engine : Once(tasks', t(f))
    BY <1>0, <2>5 DEF EnginesKnown
  <2> QED BY <2>6, <2>7, <2>8 DEF EnginesKnown
<1>9. ASSUME NEW e \in Engine, Send(e) PROVE EnginesKnown'
  <2>1. UNCHANGED <<engines, e_state>>
    BY <1>9 DEF Send, Sends
  <2> QED BY <1>0, <1>1, <1>9, <2>1, OtherActions
<1>10. ASSUME NEW e \in Engine, NEW r \in Engine, HandleStopGraph(e, r) PROVE EnginesKnown'
  <2>1. UNCHANGED <<engines, e_state>>
    BY <1>10 DEF HandleStopGraph
  <2> QED BY <1>0, <1>1, <1>10, <2>1, OtherActions
<1>11. ASSUME NEW c \in Client, QuietInClient(c) PROVE EnginesKnown'
  <2>0. Steps({}, {})
    BY <1>11, QuietActions
  <2>1. CASE \E e \in Engine : ClientStartsGraph(c, e)
    BY <1>1, <1>2, <2>0, <2>1 DEF ClientStartsGraph
  <2>2. CASE TakeCloseClient(c) \/ ClientLeaves(c) \/ ClientClosed(c)
    <3>1. UNCHANGED <<engines, e_state>>
      BY <2>2 DEF TakeCloseClient, ClientLeaves, ClientClosed
    <3> QED BY <1>1, <2>0, <3>1
  <2> QED BY <1>11, <2>1, <2>2 DEF QuietInClient
<1>12. ASSUME NEW c \in Client, Accept(c) \/ TakeClientCreated(c) PROVE EnginesKnown'
  <2>1. UNCHANGED <<engines, e_state>>
    BY <1>12 DEF Accept, TakeClientCreated
  <2>2. \A e \in Engine : <<"engine_closed", e>> \notin {<<"client_created", c>>}
    OBVIOUS
  <2>3. CASE Accept(c)
    BY <1>1, <2>1, <2>2, <2>3, OtherActions
  <2>4. CASE TakeClientCreated(c)
    <3>1. Steps({<<"client_created", c>>}, {})
      BY <2>4, OtherActions
    <3>2. \A e \in Engine : <<"engine_closed", e>> \notin {}
      OBVIOUS
    <3> QED BY <1>1, <2>1, <3>1, <3>2
  <2> QED BY <1>12, <2>3, <2>4
<1> QED
  BY <1>3, <1>4, <1>5, <1>6, <1>7, <1>8, <1>9, <1>10, <1>11, <1>12, LateCases

LEMMA AsksOf ==
    ASSUME NEW q \in Seq(Messages), NEW p \in Seq(Messages)
    PROVE  /\ Asks(q \o p) => Asks(q) \/ Asks(p)
           /\ q # <<>> /\ Asks(Tail(q)) => Asks(q)
           /\ q # <<>> /\ Head(q)[1] # "result" => Asks(q)
           /\ ~Asks(<<>>)
<1>1. Asks(q \o p) => Asks(q) \/ Asks(p)
  <2> SUFFICES ASSUME NEW i \in DOMAIN (q \o p), (q \o p)[i][1] # "result"
               PROVE  Asks(q) \/ Asks(p)
    BY DEF Asks
  <2>1. CASE i \in DOMAIN q
    BY <2>1, Joined DEF Asks
  <2>2. CASE i \notin DOMAIN q
    <3>1. i \in Nat /\ i > Len(q) /\ i - Len(q) \in DOMAIN p /\ Len(q) \in Nat
      BY <2>2, Joined
    <3>2. (q \o p)[Len(q) + (i - Len(q))] = p[i - Len(q)]
      BY <3>1, Joined
    <3>3. Len(q) + (i - Len(q)) = i
      BY <3>1
    <3> QED BY <3>1, <3>2, <3>3 DEF Asks
  <2> QED BY <2>1, <2>2
<1>2. q # <<>> /\ Asks(Tail(q)) => Asks(q)
  BY Tailed DEF Asks
<1>3. q # <<>> /\ Head(q)[1] # "result" => Asks(q)
  BY Tailed DEF Asks
<1>4. ~Asks(<<>>)
  BY DEF Asks
<1> QED BY <1>1, <1>2, <1>3, <1>4

\* Whoever has asked stays, as long as the message has not been taken.
LEMMA MessagesStay ==
    ASSUME TypeOK, MessagesHeard, NEW took, NEW posts, Steps(took, posts), <<"in_msgs">> \notin took,
           \A e \in engines : e \in engines' \/ <<"engine_closed", e>> \in took,
           loop' = "running" => loop = "running",
           Asks(in_msgs') => Asks(in_msgs),
           in_msgs' # <<>> => in_msgs # <<>> \/ <<"in_msgs">> \in posts,
           Asks(batch') => Asks(batch) /\ engines \subseteq engines'
    PROVE  MessagesHeard'
<1>1. <<"in_msgs">> \in Tasks /\ Told(<<"in_msgs">>) /\ engines \subseteq Engine
  BY TaskKinds, ToldKinds DEF TypeOK
<1>2. in_msgs' # <<>> /\ loop' = "running" => Has(tasks', <<"in_msgs">>)
  BY <1>1 DEF MessagesHeard, Steps
<1>3. ASSUME Asks(in_msgs') PROVE \E r \in engines' : Heeds(tasks', r)
  <2>1. Asks(in_msgs) /\ in_msgs # <<>>
    BY <1>3 DEF Asks
  <2>2. PICK r \in engines : Heeds(tasks, r)
    BY <2>1 DEF MessagesHeard
  <2>3. Has(tasks, <<"in_msgs">>) \/ loop # "running"
    BY <2>1 DEF MessagesHeard
  <2>4. Heeds(tasks', r) /\ <<"engine_closed", r>> \notin took
    BY <1>1, <2>2, <2>3 DEF Steps
  <2> QED BY <2>2, <2>4
<1>4. Asks(batch') => engines' # {}
  BY DEF MessagesHeard
<1> QED BY <1>2, <1>3, <1>4 DEF MessagesHeard

LEMMA LateMessages ==
    ASSUME TypeOK, ~Early, Later, [Next]_vars
    PROVE  MessagesHeard'
<1> USE DEF queues, engs, life
<1>0. /\ MessagesHeard /\ EnginesKnown
      /\ in_msgs \in Seq(Messages) /\ batch \in Seq(Messages) /\ engines \subseteq Engine
      /\ loop \in {"running", "stopping", "stopped"}
  BY DEF Later, TypeOK
<1>1. ASSUME NEW took, NEW posts, Steps(took, posts), <<"in_msgs">> \notin took,
             UNCHANGED in_msgs, batch' = batch \/ (batch # <<>> /\ batch' = Tail(batch)),
             engines \subseteq engines', loop' = loop \/ loop' # "running"
      PROVE  MessagesHeard'
  <2>1. Asks(batch') => Asks(batch)
    BY <1>0, <1>1, AsksOf
  <2> QED BY <1>0, <1>1, <2>1, MessagesStay
<1>2. CASE QuietInApp \/ UNCHANGED vars
  <2>1. UNCHANGED <<in_msgs, batch, engines>>
    BY <1>2 DEF QuietInApp, TakeProxyReleased, ReleaseProxy, CreateProxy, LoopEnds, EndpointClosed,
                OnConfigureDone, OnInitDone, OnDeinitDone, Takes, PostToApp, vars
  <2>2. loop' = loop \/ loop' # "running"
    BY <1>2 DEF QuietInApp, TakeProxyReleased, ReleaseProxy, CreateProxy, LoopEnds, EndpointClosed,
                OnConfigureDone, OnInitDone, OnDeinitDone, Stops, vars
  <2> QED BY <1>1, <1>2, <2>1, <2>2, QuietActions
<1>3. CASE TakeClose
  <2>1. UNCHANGED <<in_msgs, batch, engines, loop>>
    BY <1>3 DEF TakeClose, CloseSync, Takes
  <2>2. <<"in_msgs">> \notin {<<"close">>}
    OBVIOUS
  <2> QED BY <1>1, <1>3, <2>1, <2>2, TakeCloseSteps
<1>4. CASE TakeInMsgs
  <2>1. batch' = in_msgs /\ in_msgs' = <<>> /\ engines' = engines
    BY <1>4 DEF TakeInMsgs
  <2> QED BY <1>0, <2>1, AsksOf DEF MessagesHeard
<1>5. CASE CloseApp \/ HandleCloseApp \/ \E c \in Client : ClientClosesApp(c)
  <2>1. UNCHANGED <<in_msgs, engines, loop>>
    BY <1>5 DEF CloseApp, HandleCloseApp, ClientClosesApp, PostToApp
  <2>2. batch' = batch \/ (batch # <<>> /\ batch' = Tail(batch))
    BY <1>5 DEF CloseApp, HandleCloseApp, ClientClosesApp, PostToApp, Handles
  <2> QED BY <1>1, <1>5, <2>1, <2>2, OtherActions
<1>6. ASSUME NEW e \in Engine, QuietInEngine(e) PROVE MessagesHeard'
  <2>0. Steps({}, {})
    BY <1>6, QuietActions
  <2>1. CASE HandleStartGraph(e) \/ AppStartsGraph(e)
    <3>1. engines \subseteq engines' /\ UNCHANGED <<in_msgs, loop>>
      BY <2>1 DEF HandleStartGraph, AppStartsGraph, Creates
    <3>2. batch' = batch \/ (batch # <<>> /\ batch' = Tail(batch))
      BY <2>1 DEF HandleStartGraph, AppStartsGraph, Handles
    <3> QED BY <1>1, <2>0, <3>1, <3>2
  <2>2. CASE StopItself(e) \/ EngineStops(e)
    <3>1. UNCHANGED <<in_msgs, batch, engines, loop>>
      BY <2>2 DEF StopItself, EngineStops
    <3> QED BY <1>1, <2>0, <3>1
  <2>3. CASE EngineTakesClose(e) \/ \E r \in Engine : EngineTakesStop(e, r)
    <3>1. UNCHANGED <<in_msgs, batch, engines, loop>>
      BY <2>3 DEF EngineTakesClose, EngineTakesStop, EngineTask, Takes
    <3> QED BY <1>1, <2>0, <3>1
  <2>4. CASE \E r \in Engine : HandleResult(e, r)
    <3>1. UNCHANGED <<in_msgs, engines, loop>> /\ batch # <<>> /\ batch' = Tail(batch)
      BY <2>4 DEF HandleResult, Handles
    <3> QED BY <1>1, <2>0, <3>1
  <2> QED BY <1>6, <2>1, <2>2, <2>3, <2>4 DEF QuietInEngine
<1>7. ASSUME NEW e \in Engine, TakeEngineClosed(e) PROVE MessagesHeard'
  <2> DEFINE took == {<<"engine_closed", e>>}
             results == IF Answer(e) = <<>> THEN {} ELSE {<<"in_msgs">>}
             closes == IF ~config.long_running /\ engines = {e} THEN Closes ELSE {}
  <2>1. Steps(took, results \cup closes) /\ <<"in_msgs">> \notin took
    BY <1>7, TakeEngineClosedSteps
  <2>2. engines' = engines \ {e} /\ loop' = loop /\ in_msgs' = in_msgs \o Answer(e)
        /\ batch' = <<>>
    BY <1>7 DEF TakeEngineClosed, Takes
  <2>3. ~Asks(Answer(e))
    BY DEF Answer, Asks
  <2>4. Answer(e) \in Seq(Messages)
    BY AnswerTyped
  <2>5. Asks(in_msgs') => Asks(in_msgs)
    BY <1>0, <2>2, <2>3, <2>4, AsksOf
  <2>6. in_msgs' # <<>> => in_msgs # <<>> \/ <<"in_msgs">> \in results
    <3>1. Answer(e) = <<>> => in_msgs' = in_msgs
      BY <1>0, <2>2, ConcatEmptySeq
    <3> QED BY <3>1
  <2>7. \A f \in engines : f \in engines' \/ <<"engine_closed", f>> \in took
    BY <2>2
  <2>8. ~Asks(batch')
    BY <2>2 DEF Asks
  <2> HIDE DEF took, results, closes
  <2>9. in_msgs' # <<>> => in_msgs # <<>> \/ <<"in_msgs">> \in results \cup closes
    BY <2>6
  <2>10. loop' = "running" => loop = "running"
    BY <2>2
  <2> QED BY <1>0, <2>1, <2>5, <2>7, <2>8, <2>9, <2>10, MessagesStay
<1>8. ASSUME NEW e \in Engine, EngineCloses(e) PROVE MessagesHeard'
  <2>1. UNCHANGED <<in_msgs, batch, engines, loop>>
    BY <1>8 DEF EngineCloses, PostToApp
  <2> QED BY <1>1, <1>8, <2>1, OtherActions
<1>9. ASSUME NEW e \in Engine, Send(e) PROVE MessagesHeard'
  <2>1. Steps({}, {<<"in_msgs">>})
    BY <1>9, OtherActions
  <2>2. <<"in_msgs">> \in Tasks /\ Told(<<"in_msgs">>)
    BY TaskKinds, ToldKinds
  <2>3. e \in engines /\ ~Has(tasks, <<"engine_closed", e>>)
    BY <1>0, <1>9 DEF Send, EnginesKnown
  <2>4. Heeds(tasks, e) /\ <<"engine_closed", e>> \notin {<<"in_msgs">>}
    BY <2>3, PrecedesJoined DEF Heeds, TypeOK
  <2>5. Heeds(tasks', e)
    BY <2>1, <2>4 DEF Steps
  <2>6. UNCHANGED <<batch, engines, loop>>
    BY <1>9 DEF Send, Sends
  <2>7. loop = "running" => Has(tasks', <<"in_msgs">>)
    BY <2>1, <2>2 DEF Steps
  <2> QED BY <1>0, <2>3, <2>5, <2>6, <2>7 DEF MessagesHeard
<1>10. ASSUME NEW e \in Engine, NEW r \in Engine, HandleStopGraph(e, r) PROVE MessagesHeard'
  <2>1. UNCHANGED <<engines, loop>> /\ batch # <<>> /\ batch' = Tail(batch)
    BY <1>10 DEF HandleStopGraph, Handles
  <2>2. CASE e \in engines
    <3>1. UNCHANGED in_msgs
      BY <1>10, <2>2 DEF HandleStopGraph
    <3> QED BY <1>1, <1>10, <2>1, <2>2, <3>1, OtherActions
  <2>3. CASE e \notin engines
    <3> DEFINE m == <<"result", e, r>>
    <3>1. in_msgs' = Append(in_msgs, m) /\ m \in Messages /\ m[1] = "result"
      BY <1>10, <2>3, MessageKinds DEF HandleStopGraph
    <3> HIDE DEF m
    <3>2. in_msgs' = in_msgs \o <<m>> /\ <<m>> \in Seq(Messages)
      BY <1>0, <3>1, AppendIsConcat
    <3>3. ~Asks(<<m>>)
      BY <3>1 DEF Asks
    <3>4. Asks(in_msgs') => Asks(in_msgs)
      BY <1>0, <3>2, <3>3, AsksOf
    <3>5. Asks(batch') => Asks(batch)
      BY <1>0, <2>1, AsksOf
    <3>6. Steps({}, {<<"in_msgs">>})
      BY <1>10, <2>3, OtherActions
    <3> QED BY <1>0, <2>1, <3>4, <3>5, <3>6, MessagesStay
  <2> QED BY <2>2, <2>3
<1>11. ASSUME NEW c \in Client, QuietInClient(c) PROVE MessagesHeard'
  <2>1. UNCHANGED <<in_msgs, batch, loop>>
    BY <1>11 DEF QuietInClient, TakeCloseClient, ClientLeaves, ClientClosed, ClientStartsGraph,
                 Takes, PostToApp
  <2>2. engines \subseteq engines'
    BY <1>11 DEF QuietInClient, TakeCloseClient, ClientLeaves, ClientClosed, ClientStartsGraph,
                 Creates
  <2> QED BY <1>1, <1>11, <2>1, <2>2, QuietActions
<1>12. ASSUME NEW c \in Client, Accept(c) \/ TakeClientCreated(c) PROVE MessagesHeard'
  <2>1. UNCHANGED <<in_msgs, batch, engines, loop>>
    BY <1>12 DEF Accept, TakeClientCreated, Takes, PostToApp
  <2>2. CASE Accept(c)
    <3>1. Steps({}, {<<"client_created", c>>})
      BY <2>2, OtherActions
    <3> QED BY <1>1, <2>1, <3>1
  <2>3. CASE TakeClientCreated(c)
    <3>1. Steps({<<"client_created", c>>}, {})
      BY <2>3, OtherActions
    <3>2. <<"in_msgs">> \notin {<<"client_created", c>>}
      OBVIOUS
    <3> QED BY <1>1, <2>1, <3>1, <3>2
  <2> QED BY <1>12, <2>2, <2>3
<1> QED
  BY <1>2, <1>3, <1>4, <1>5, <1>6, <1>7, <1>8, <1>9, <1>10, <1>11, <1>12, LateCases

\* The creation of a client's protocol ends before the endpoint closes: its task is in the
\* runloop, and the app's thread does not look at the sockets.
LEMMA ClientsStay ==
    ASSUME TypeOK, ClientsComeFirst, NEW took, NEW posts, Steps(took, posts),
           \A c \in Client : <<"client_created", c>> \notin posts,
           \/ endpoint' = endpoint
           \/ endpoint = "listening" /\ endpoint' = "closing" /\ (tasks' # <<>> => draining'),
           draining' = draining \/ (tasks' # <<>> => draining')
    PROVE  ClientsComeFirst'
<1> SUFFICES ASSUME NEW c \in Client, Has(tasks', <<"client_created", c>>)
             PROVE  endpoint' = "listening" \/ (endpoint' = "closing" /\ draining')
  BY DEF ClientsComeFirst
<1>1. <<"client_created", c>> \in Tasks /\ Told(<<"client_created", c>>)
  BY TaskKinds, ToldKinds
<1>2. Has(tasks, <<"client_created", c>>)
  BY <1>1 DEF Steps
<1>3. tasks' # <<>>
  BY HasNone
<1> QED BY <1>2, <1>3 DEF ClientsComeFirst

LEMMA LateClients ==
    ASSUME TypeOK, ~Early, Later, [Next]_vars
    PROVE  ClientsComeFirst'
<1> USE DEF queues, world
<1>0. /\ ClientsComeFirst
      /\ \A c \in Client, e \in Engine :
            <<"client_created", c>> \notin {<<"in_msgs">>} \cup Closes \cup {<<"engine_closed", e>>}
  BY DEF Later, Closes
<1>1. ASSUME NEW took, NEW posts, Steps(took, posts),
             \A c \in Client : <<"client_created", c>> \notin posts,
             endpoint' = endpoint, draining' = draining \/ (tasks' # <<>> => draining')
      PROVE  ClientsComeFirst'
  BY <1>0, <1>1, ClientsStay
<1>2. CASE QuietInApp \/ UNCHANGED vars
  <2>1. CASE EndpointClosed
    <3>1. Steps({}, {}) /\ endpoint = "closing" /\ ~draining
      BY <1>2, <2>1, QuietActions DEF EndpointClosed, LooksAtSockets
    <3>2. ASSUME NEW c \in Client PROVE ~Has(tasks', <<"client_created", c>>)
      <4>1. ~Has(tasks, <<"client_created", c>>)
        BY <1>0, <3>1 DEF ClientsComeFirst
      <4>2. <<"client_created", c>> \in Tasks /\ Told(<<"client_created", c>>)
        BY TaskKinds, ToldKinds
      <4> QED BY <3>1, <4>1, <4>2 DEF Steps
    <3> QED BY <3>2 DEF ClientsComeFirst
  <2>2. CASE ~EndpointClosed
    <3>1. endpoint' = endpoint
      BY <1>2, <2>2 DEF QuietInApp, TakeProxyReleased, ReleaseProxy, CreateProxy, LoopEnds,
                        OnConfigureDone, OnInitDone, OnDeinitDone, vars
    <3>2. draining' = draining \/ (tasks' # <<>> => draining')
      BY <1>2, <2>2 DEF QuietInApp, TakeProxyReleased, ReleaseProxy, CreateProxy, LoopEnds,
                        OnConfigureDone, OnInitDone, OnDeinitDone, Takes, PostToApp, vars
    <3> QED BY <1>1, <1>2, <3>1, <3>2, QuietActions
  <2> QED BY <2>1, <2>2
<1>3. CASE TakeClose
  <2>1. /\ \/ endpoint' = endpoint
           \/ endpoint = "listening" /\ endpoint' = "closing"
        /\ tasks' # <<>> => draining'
    BY <1>3 DEF TakeClose, CloseSync, Takes
  <2> QED BY <1>0, <1>3, <2>1, TakeCloseSteps, ClientsStay
<1>4. CASE TakeInMsgs
  <2>1. endpoint' = endpoint /\ (tasks' # <<>> => draining')
    BY <1>4 DEF TakeInMsgs
  <2> QED BY <1>1, <1>4, <2>1, TakeInMsgsSteps
<1>5. CASE CloseApp \/ HandleCloseApp \/ \E c \in Client : ClientClosesApp(c)
  <2>1. endpoint' = endpoint /\ (draining' = draining \/ (tasks' # <<>> => draining'))
    BY <1>5 DEF CloseApp, HandleCloseApp, ClientClosesApp, PostToApp, StaysInTasks
  <2>2. Steps({}, Closes)
    BY <1>5, OtherActions
  <2>3. \A c \in Client : <<"client_created", c>> \notin Closes
    BY DEF Closes
  <2> QED BY <1>1, <2>1, <2>2, <2>3
<1>6. ASSUME NEW e \in Engine, QuietInEngine(e) PROVE ClientsComeFirst'
  <2>1. endpoint' = endpoint
    BY <1>6 DEF QuietInEngine, HandleStartGraph, AppStartsGraph, StopItself, EngineStops,
                EngineTakesClose, EngineTakesStop, HandleResult
  <2>2. CASE HandleStartGraph(e) \/ AppStartsGraph(e) \/ StopItself(e) \/ EngineStops(e)
             \/ \E r \in Engine : HandleResult(e, r)
    <3>1. draining' = draining \/ (tasks' # <<>> => draining')
      BY <2>2 DEF HandleStartGraph, AppStartsGraph, StopItself, EngineStops, HandleResult, StaysInTasks
    <3> QED BY <1>1, <1>6, <2>1, <3>1, QuietActions
  <2>3. CASE EngineTakesClose(e) \/ \E r \in Engine : EngineTakesStop(e, r)
    <3>1. draining' = draining \/ (tasks' # <<>> => draining')
      BY <2>3 DEF EngineTakesClose, EngineTakesStop, EngineTask, Takes
    <3> QED BY <1>1, <1>6, <2>1, <3>1, QuietActions
  <2> QED BY <1>6, <2>2, <2>3 DEF QuietInEngine
<1>7. ASSUME NEW e \in Engine, TakeEngineClosed(e) PROVE ClientsComeFirst'
  <2>1. endpoint' = endpoint /\ (tasks' # <<>> => draining')
    BY <1>7 DEF TakeEngineClosed, Takes
  <2> DEFINE results == IF Answer(e) = <<>> THEN {} ELSE {<<"in_msgs">>}
             closes == IF ~config.long_running /\ engines = {e} THEN Closes ELSE {}
  <2>2. Steps({<<"engine_closed", e>>}, results \cup closes)
    BY <1>7, TakeEngineClosedSteps
  <2>3. \A c \in Client : <<"client_created", c>> \notin results \cup closes
    BY <1>0
  <2> HIDE DEF results, closes
  <2> QED BY <1>1, <2>1, <2>2, <2>3
<1>8. ASSUME NEW e \in Engine, EngineCloses(e) \/ Send(e) PROVE ClientsComeFirst'
  <2>1. endpoint' = endpoint /\ draining' = draining
    BY <1>8 DEF EngineCloses, Send, Sends, PostToApp
  <2>2. CASE EngineCloses(e)
    <3>1. Steps({}, {<<"engine_closed", e>>})
      BY <2>2, OtherActions
    <3> QED BY <1>0, <1>1, <2>1, <3>1
  <2>3. CASE Send(e)
    <3>1. Steps({}, {<<"in_msgs">>})
      BY <2>3, OtherActions
    <3> QED BY <1>0, <1>1, <2>1, <3>1
  <2> QED BY <1>8, <2>2, <2>3
<1>9. ASSUME NEW e \in Engine, NEW r \in Engine, HandleStopGraph(e, r) PROVE ClientsComeFirst'
  <2>1. endpoint' = endpoint /\ (tasks' # <<>> => draining')
    BY <1>9 DEF HandleStopGraph, StaysInTasks
  <2>2. Steps({}, {}) \/ Steps({}, {<<"in_msgs">>})
    BY <1>9, OtherActions
  <2> QED BY <1>0, <1>1, <2>1, <2>2
<1>10. ASSUME NEW c \in Client, QuietInClient(c) PROVE ClientsComeFirst'
  <2>1. endpoint' = endpoint
    BY <1>10 DEF QuietInClient, TakeCloseClient, ClientLeaves, ClientClosed, ClientStartsGraph
  <2>2. draining' = draining \/ (tasks' # <<>> => draining')
    BY <1>10 DEF QuietInClient, TakeCloseClient, ClientLeaves, ClientClosed, ClientStartsGraph,
                 Takes, PostToApp
  <2> QED BY <1>1, <1>10, <2>1, <2>2, QuietActions
<1>11. ASSUME NEW c \in Client, Accept(c) PROVE ClientsComeFirst'
  <2>1. endpoint' = "listening"
    BY <1>11 DEF Accept
  <2> QED BY <2>1 DEF ClientsComeFirst
<1>12. ASSUME NEW c \in Client, TakeClientCreated(c) PROVE ClientsComeFirst'
  <2>1. endpoint' = endpoint /\ (tasks' # <<>> => draining')
    BY <1>12 DEF TakeClientCreated, Takes
  <2>2. Steps({<<"client_created", c>>}, {})
    BY <1>12, OtherActions
  <2> QED BY <1>1, <2>1, <2>2
<1> QED
  BY <1>2, <1>3, <1>4, <1>5, <1>6, <1>7, <1>8, <1>9, <1>10, <1>11, <1>12, LateCases

\* When nothing is left, nobody is there who could bring something.
LEMMA NothingComes ==
    ASSUME TypeOK, Later, NothingLeft
    PROVE  /\ ~EndpointClosed
           /\ \A e \in Engine :
                 /\ ~HandleStartGraph(e) /\ ~TakeEngineClosed(e) /\ ~EngineCloses(e)
                 /\ ~Send(e) /\ ~StopItself(e)
                 /\ \A r \in Engine : ~HandleStopGraph(e, r)
           /\ \A c \in Client :
                 /\ ~ClientLeaves(c) /\ ~ClientClosed(c) /\ ~ClientClosesApp(c)
                 /\ ~Accept(c) /\ ~TakeClientCreated(c)
                 /\ \A e \in Engine : ~ClientStartsGraph(c, e)
<1> USE DEF NothingLeft
<1>1. ~EndpointClosed
  BY DEF EndpointClosed
<1>2. ASSUME NEW e \in Engine
      PROVE  /\ ~HandleStartGraph(e) /\ ~TakeEngineClosed(e) /\ ~EngineCloses(e)
             /\ ~Send(e) /\ ~StopItself(e)
             /\ \A r \in Engine : ~HandleStopGraph(e, r)
  <2>1. e_state[e] \notin {"running", "closing", "stopping"}
    BY DEF Later, EnginesKnown
  <2>2. ~EngineCloses(e) /\ ~Send(e) /\ ~StopItself(e)
    BY <2>1 DEF EngineCloses, Send, StopItself
  <2>3. batch \in Seq(Messages) /\ ~Asks(batch)
    BY DEF Later, MessagesHeard, TypeOK
  <2>4. batch # <<>> => Head(batch)[1] = "result"
    <3>1. <<>> \in Seq(Messages)
      OBVIOUS
    <3> QED BY <2>3, <3>1, AsksOf
  <2>5. ~HandleStartGraph(e) /\ \A r \in Engine : ~HandleStopGraph(e, r)
    BY <2>4 DEF HandleStartGraph, HandleStopGraph, Handles
  <2>6. ~Has(tasks, <<"engine_closed", e>>)
    BY DEF Later, EnginesKnown
  <2>7. ASSUME TakeEngineClosed(e) PROVE FALSE
    <3>1. tasks \in Seq(Tasks) /\ tasks # <<>> /\ Head(tasks) = <<"engine_closed", e>>
      BY <2>7 DEF TakeEngineClosed, Takes, TypeOK
    <3>2. Has(tasks, <<"engine_closed", e>>)
      BY <3>1, Tailed DEF Has
    <3> QED BY <2>6, <3>2
  <2> QED BY <2>2, <2>5, <2>7
<1>3. ASSUME NEW c \in Client
      PROVE  /\ ~ClientLeaves(c) /\ ~ClientClosed(c) /\ ~ClientClosesApp(c)
             /\ ~Accept(c) /\ ~TakeClientCreated(c)
             /\ \A e \in Engine : ~ClientStartsGraph(c, e)
  <2>1. client[c] \notin {"orphan", "left", "closing"}
    BY DEF Orphans
  <2>2. /\ ~ClientLeaves(c) /\ ~ClientClosed(c) /\ ~ClientClosesApp(c) /\ ~Accept(c)
        /\ \A e \in Engine : ~ClientStartsGraph(c, e)
    BY <2>1 DEF ClientLeaves, ClientClosed, ClientClosesApp, Accept, ClientStartsGraph
  <2>3. ~Has(tasks, <<"client_created", c>>)
    BY DEF Later, ClientsComeFirst
  <2>4. ASSUME TakeClientCreated(c) PROVE FALSE
    <3>1. tasks \in Seq(Tasks) /\ tasks # <<>> /\ Head(tasks) = <<"client_created", c>>
      BY <2>4 DEF TakeClientCreated, Takes, TypeOK
    <3>2. Has(tasks, <<"client_created", c>>)
      BY <3>1, Tailed DEF Has
    <3> QED BY <2>3, <3>2
  <2> QED BY <2>2, <2>4
<1> QED BY <1>1, <1>2, <1>3

\* What a step may do to what the app has still to close, and to its reports: the task to
\* close is posted by whoever closes the app, and a report that finds nothing left leads to
\* on_deinit.
Reports(posts) ==
    /\ \/ state' = state
       \/ state' = "CLOSING" /\ ~IsClosing(state) /\ <<"close">> \in posts
       \/ state = "ON_INIT" /\ state' = "ON_INIT_DONE"
       \/ state = "CLOSING" /\ state' = "ON_DEINIT_DONE" /\ "on_deinit" \in user
    /\ <<"close">> \in posts => ~IsClosing(state) /\ IsClosing(state')
    /\ endpoint' = endpoint \/ (endpoint = "closing" /\ endpoint' = "closed")
    /\ loop' = "running" => loop = "running"
    /\ loop' # "running" /\ proxy' = "none" =>
           (loop # "running" /\ proxy = "none") \/ state' = "ON_DEINIT_DONE"
    /\ \/ /\ deinits' = deinits
          /\ "on_deinit" \in user' => "on_deinit" \in user
          /\ NothingLeft' => NothingLeft \/ ~IsClosing(state')
       \/ deinits' = deinits + 1 /\ IsClosing(state') /\ NothingLeft' /\ ~NothingLeft
    /\ deinits > 0 => NothingLeft'

Reported == ClosesOnce /\ Deinited /\ NothingLeftMeansDeinit /\ DeinitOnce

LEMMA LeftTasks ==
    ASSUME TypeOK
    PROVE  NothingLeftMeansDeinit <=>
             (state = "CLOSING" /\ loop = "running" /\ NothingLeft /\ ~Has(tasks, <<"close">>)
              => deinits > 0)
BY DEF NothingLeftMeansDeinit, NothingLeft, Has

LEMMA ReportsStay ==
    ASSUME TypeOK, TypeOK', ~Early, Later, NEW took, NEW posts, Steps(took, posts),
           <<"close">> \notin took, Reports(posts)
    PROVE  Reported'
<1> USE DEF Reports
<1>0. /\ <<"close">> \in Tasks /\ Told(<<"close">>)
      /\ deinits \in Nat /\ loop \in {"running", "stopping", "stopped"}
      /\ endpoint \in {"none", "listening", "closing", "closed"}
      /\ ClosesOnce /\ Deinited /\ DeinitOnce
      /\ state = "CLOSING" /\ loop = "running" /\ NothingLeft /\ ~Has(tasks, <<"close">>)
           => deinits > 0
  BY TaskKinds, ToldKinds, LeftTasks DEF Later, TypeOK
<1>1. /\ Has(tasks', <<"close">>) => Has(tasks, <<"close">>) \/ <<"close">> \in posts
      /\ Has(tasks, <<"close">>) => Has(tasks', <<"close">>)
      /\ loop = "running" /\ <<"close">> \in posts => Has(tasks', <<"close">>)
      /\ Once(tasks, <<"close">>) /\ (<<"close">> \notin posts \/ ~Has(tasks, <<"close">>))
           => Once(tasks', <<"close">>)
  BY <1>0 DEF Steps
<1>2. IsClosing(state) => IsClosing(state')
  BY DEF IsClosing
<1>3. ClosesOnce'
  <2>1. endpoint' \in {"closing", "closed"} => IsClosing(state')
    BY <1>0, <1>2 DEF ClosesOnce
  <2>2. Has(tasks', <<"close">>) => IsClosing(state') /\ endpoint' \in {"none", "listening"}
    BY <1>0, <1>1, <1>2 DEF ClosesOnce
  <2>3. Once(tasks', <<"close">>)
    BY <1>0, <1>1 DEF ClosesOnce
  <2> QED BY <2>1, <2>2, <2>3 DEF ClosesOnce
<1>4. Deinited'
  <2>1. deinits' > 0 => IsClosing(state') /\ NothingLeft'
    BY <1>0, <1>2 DEF Deinited
  <2>2. "on_deinit" \in user' \/ state' = "ON_DEINIT_DONE" => deinits' > 0
    BY <1>0 DEF Deinited
  <2>3. loop' # "running" /\ proxy' = "none" => state' = "ON_DEINIT_DONE"
    BY <1>0 DEF Deinited, IsClosing
  <2> QED BY <2>1, <2>2, <2>3 DEF Deinited
<1>5. state' = "CLOSING" /\ loop' = "running" /\ NothingLeft' /\ ~Has(tasks', <<"close">>)
        => deinits' > 0
  <2> SUFFICES ASSUME state' = "CLOSING", loop' = "running", NothingLeft', ~Has(tasks', <<"close">>)
               PROVE  deinits' > 0
    OBVIOUS
  <2>1. state = "CLOSING" /\ loop = "running" /\ ~Has(tasks, <<"close">>)
    BY <1>1
  <2>2. CASE deinits' = deinits + 1
    BY <1>0, <2>2
  <2>3. CASE deinits' = deinits /\ NothingLeft
    BY <1>0, <2>1, <2>3
  <2> QED BY <2>2, <2>3 DEF IsClosing
<1>6. DeinitOnce'
  <2> SUFFICES ASSUME deinits' > 1 PROVE endpoint' = "none"
    BY DEF DeinitOnce
  <2>1. deinits > 0
    BY <1>0
  <2>2. NothingLeft
    BY <1>0, <2>1 DEF Deinited
  <2>3. deinits' = deinits
    BY <2>2
  <2> QED BY <1>0, <2>3 DEF DeinitOnce
<1>7. NothingLeftMeansDeinit'
  BY <1>5 DEF NothingLeftMeansDeinit, NothingLeft, Has
<1> QED BY <1>3, <1>4, <1>6, <1>7 DEF Reported

LEMMA ReportsOf ==
    ASSUME ProceedsIfClosing, deinits \in Nat, ~NothingLeft
    PROVE  \/ /\ deinits' = deinits
              /\ "on_deinit" \in user' => "on_deinit" \in user
              /\ NothingLeft' => NothingLeft \/ ~IsClosing(state')
           \/ deinits' = deinits + 1 /\ IsClosing(state') /\ NothingLeft' /\ ~NothingLeft
<1>1. CouldBeClose' <=> NothingLeft'
  BY DEF CouldBeClose, NothingLeft
<1>2. CASE IsClosing(state') /\ CouldBeClose'
  <2>1. deinits' = deinits + 1
    BY <1>2 DEF ProceedsIfClosing, Proceeds
  <2> QED BY <1>1, <1>2, <2>1
<1>3. CASE ~(IsClosing(state') /\ CouldBeClose')
  <2>1. deinits' = deinits /\ user' = user
    BY <1>3, Zenon DEF ProceedsIfClosing, Proceeds
  <2> QED BY <1>1, <1>3, <2>1
<1> QED BY <1>2, <1>3

\* A step that leaves the state of the app, and its reports, alone.
LEMMA NoReport ==
    ASSUME Later, deinits \in Nat, UNCHANGED <<life, endpoint, proxy>>,
           NEW posts, <<"close">> \notin posts,
           NothingLeft' => NothingLeft, deinits > 0 => NothingLeft'
    PROVE  Reports(posts)
BY DEF Later, Deinited, Reports, IsClosing, life

LEMMA LateReported ==
    ASSUME TypeOK, TypeOK', ~Early, Later, [Next]_vars
    PROVE  Reported'
<1> USE DEF queues, engs, world, life
<1>0. /\ Deinited /\ ClosesOnce /\ DeinitOnce /\ deinits \in Nat
      /\ loop \in {"running", "stopping", "stopped"}
      /\ deinits > 0 => NothingLeft /\ IsClosing(state)
      /\ <<"close">> \in Tasks /\ Told(<<"close">>)
  BY TaskKinds, ToldKinds DEF Later, Deinited, TypeOK
<1>1. ASSUME Steps({}, {}), Reports({}) PROVE Reported'
  BY <1>1, ReportsStay
<1>2. CASE QuietInApp \/ UNCHANGED vars
  <2>0. Steps({}, {})
    BY <1>2, QuietActions
  <2>1. CASE TakeProxyReleased \/ ReleaseProxy \/ CreateProxy \/ LoopEnds
    <3>1. UNCHANGED <<state, deinits, endpoint, engines, client, user>>
      BY <2>1 DEF TakeProxyReleased, ReleaseProxy, CreateProxy, LoopEnds
    <3>2. \/ loop' = "stopped" /\ loop = "stopping" /\ proxy' = proxy
          \/ loop' \in {loop, "stopping"} /\ proxy' # "none"
      BY <2>1 DEF TakeProxyReleased, ReleaseProxy, CreateProxy, LoopEnds, Stops
    <3>3. loop' = "running" => loop = "running"
      BY <2>1 DEF TakeProxyReleased, ReleaseProxy, CreateProxy, LoopEnds, Stops
    <3>4. NothingLeft' <=> NothingLeft
      BY <3>1 DEF NothingLeft, Orphans
    <3> QED BY <1>0, <1>1, <2>0, <3>1, <3>2, <3>3, <3>4 DEF Reports
  <2>2. CASE EndpointClosed
    <3>1. ~NothingLeft
      BY <2>2, NothingComes
    <3>2. /\ UNCHANGED <<state, loop, engines, client, proxy>>
          /\ endpoint = "closing" /\ endpoint' = "closed" /\ ProceedsIfClosing
      BY <2>2 DEF EndpointClosed
    <3>3. Reports({})
      BY <1>0, <3>1, <3>2, ReportsOf DEF Reports
    <3> QED BY <1>1, <2>0, <3>3
  <2>3. CASE OnConfigureDone \/ OnInitDone \/ OnDeinitDone
    <3>1. UNCHANGED <<deinits, endpoint, engines, client, proxy>> /\ user' \subseteq user
      BY <2>3 DEF OnConfigureDone, OnInitDone, OnDeinitDone
    <3>2. \/ state' = state /\ loop' = loop
          \/ state = "ON_INIT" /\ state' = "ON_INIT_DONE" /\ loop' = loop
          \/ state = "CLOSING" /\ state' = "ON_DEINIT_DONE" /\ "on_deinit" \in user
             /\ loop' \in {loop, "stopping"}
      BY <2>3 DEF OnConfigureDone, OnInitDone, OnDeinitDone, Stops, Early
    <3>4. NothingLeft' <=> NothingLeft
      BY <3>1 DEF NothingLeft, Orphans
    <3>5. state = "ON_INIT" => ~IsClosing(state)
      BY DEF IsClosing
    <3>6. Reports({})
      BY <1>0, <3>1, <3>2, <3>4, <3>5 DEF Reports
    <3> QED BY <1>1, <2>0, <3>6
  <2>4. CASE UNCHANGED vars
    <3>1. NothingLeft' <=> NothingLeft
      BY <2>4 DEF vars, NothingLeft, Orphans
    <3>2. Reports({})
      BY <1>0, <2>4, <3>1 DEF Reports, vars
    <3> QED BY <1>1, <2>0, <3>2
  <2> QED BY <1>2, <2>1, <2>2, <2>3, <2>4 DEF QuietInApp
<1>3. CASE TakeInMsgs
  <2>1. UNCHANGED <<life, endpoint, proxy, engines, client>>
    BY <1>3 DEF TakeInMsgs
  <2>2. NothingLeft' <=> NothingLeft
    BY <2>1 DEF NothingLeft, Orphans
  <2>3. Reports({})
    BY <1>0, <2>1, <2>2, NoReport
  <2>4. <<"close">> \notin {<<"in_msgs">>}
    OBVIOUS
  <2> QED BY <1>3, <2>3, <2>4, TakeInMsgsSteps, ReportsStay
<1>4. CASE CloseApp \/ HandleCloseApp \/ \E c \in Client : ClientClosesApp(c)
  <2>1. state' = Closed /\ UNCHANGED <<user, deinits, loop, endpoint, proxy, engines, client>>
    BY <1>4 DEF CloseApp, HandleCloseApp, ClientClosesApp
  <2>2. NothingLeft' <=> NothingLeft
    BY <2>1 DEF NothingLeft, Orphans
  <2>3. Reports(Closes)
    BY <1>0, <2>1, <2>2 DEF Reports, Closed, Closes, IsClosing
  <2>4. Steps({}, Closes)
    BY <1>4, OtherActions
  <2> QED BY <2>3, <2>4, ReportsStay
<1>5. CASE TakeClose
  <2>1. Steps({<<"close">>}, {})
    BY <1>5, TakeCloseSteps
  <2>2. Has(tasks, <<"close">>) /\ ~Has(tasks', <<"close">>)
    BY <1>0, <2>1 DEF Steps, ClosesOnce
  <2>3. IsClosing(state) /\ endpoint \in {"none", "listening"}
    BY <1>0, <2>2 DEF ClosesOnce
  <2>4. UNCHANGED <<state, loop, proxy, engines>>
    BY <1>5 DEF TakeClose
  <2>5. CASE CouldBeClose
    <3>1. UNCHANGED <<client, endpoint>> /\ Proceeds /\ endpoint = "none"
      BY <1>5, <2>3, <2>5 DEF TakeClose, CouldBeClose
    <3>2. NothingLeft'
      BY <2>4, <2>5, <3>1 DEF CouldBeClose, NothingLeft, Orphans
    <3>3. deinits' = deinits + 1
      BY <3>1, <3>2 DEF Proceeds, CouldBeClose, NothingLeft
    <3>4. ClosesOnce' /\ NothingLeftMeansDeinit' /\ DeinitOnce'
      BY <1>0, <2>2, <2>3, <2>4, <3>1, <3>3, HasNone
         DEF ClosesOnce, NothingLeftMeansDeinit, DeinitOnce, Once, Has, IsClosing
    <3>5. Deinited'
      BY <1>0, <2>3, <2>4, <3>2, <3>3 DEF Deinited, IsClosing
    <3> QED BY <3>4, <3>5 DEF Reported
  <2>6. CASE ~CouldBeClose
    <3>1. /\ UNCHANGED <<deinits, user>>
          /\ endpoint' = IF endpoint = "listening" THEN "closing" ELSE endpoint
          /\ client' = [c \in Client |-> IF client[c] \in {"orphan", "left"} THEN "closing"
                                         ELSE client[c]]
      BY <1>5, <2>6 DEF TakeClose, CloseSync
    <3>2. Orphans' = Orphans
      BY <3>1 DEF Orphans, TypeOK
    <3>3. deinits = 0 /\ ~NothingLeft
      BY <1>0, <2>6 DEF CouldBeClose, NothingLeft
    <3>4. ~NothingLeft'
      BY <2>4, <3>1, <3>2, <3>3 DEF NothingLeft
    <3>5. ClosesOnce' /\ DeinitOnce'
      BY <2>2, <2>3, <2>4, <3>1, <3>3 DEF ClosesOnce, DeinitOnce, Once, Has, IsClosing
    <3>6. Deinited'
      BY <1>0, <2>4, <3>1, <3>3 DEF Deinited
    <3>7. NothingLeftMeansDeinit'
      BY <3>4 DEF NothingLeftMeansDeinit, NothingLeft
    <3> QED BY <3>5, <3>6, <3>7 DEF Reported
  <2> QED BY <2>5, <2>6
<1>6. ASSUME NEW e \in Engine, QuietInEngine(e) PROVE Reported'
  <2>0. Steps({}, {})
    BY <1>6, QuietActions
  <2>1. UNCHANGED <<life, endpoint, proxy, client>>
    BY <1>6 DEF QuietInEngine, HandleStartGraph, AppStartsGraph, StopItself, EngineStops,
                EngineTakesClose, EngineTakesStop, HandleResult
  <2>2. CASE HandleStartGraph(e) \/ AppStartsGraph(e)
    <3>1. deinits = 0
      BY <1>0, <2>2, NothingComes DEF AppStartsGraph
    <3>2. engines \subseteq engines'
      BY <2>2 DEF HandleStartGraph, AppStartsGraph, Creates
    <3>3. NothingLeft' => NothingLeft
      BY <2>1, <3>2 DEF NothingLeft, Orphans
    <3>4. Reports({})
      BY <1>0, <2>1, <3>1, <3>3, NoReport
    <3> QED BY <1>1, <2>0, <3>4
  <2>3. CASE StopItself(e) \/ EngineStops(e) \/ EngineTakesClose(e)
             \/ \E r \in Engine : EngineTakesStop(e, r) \/ HandleResult(e, r)
    <3>1. engines' = engines
      BY <2>3 DEF StopItself, EngineStops, EngineTakesClose, EngineTakesStop, HandleResult
    <3>2. NothingLeft' <=> NothingLeft
      BY <2>1, <3>1 DEF NothingLeft, Orphans
    <3>3. Reports({})
      BY <1>0, <2>1, <3>2, NoReport
    <3> QED BY <1>1, <2>0, <3>3
  <2> QED BY <1>6, <2>2, <2>3 DEF QuietInEngine
<1>7. ASSUME NEW e \in Engine, TakeEngineClosed(e) PROVE Reported'
  <2> DEFINE took == {<<"engine_closed", e>>}
             results == IF Answer(e) = <<>> THEN {} ELSE {<<"in_msgs">>}
             last == ~config.long_running /\ engines = {e}
             closes == IF last THEN Closes ELSE {}
  <2>1. Steps(took, results \cup closes) /\ <<"close">> \notin took /\ <<"close">> \notin results
    BY <1>7, TakeEngineClosedSteps
  <2>2. ~NothingLeft
    BY <1>7, NothingComes
  <2>3. UNCHANGED <<endpoint, loop, proxy>> /\ state' = (IF last THEN Closed ELSE state)
        /\ ProceedsIfClosing
    BY <1>7 DEF TakeEngineClosed
  <2> HIDE DEF took, results, last
  <2>4. Reports(results \cup closes)
    BY <1>0, <2>1, <2>2, <2>3, ReportsOf DEF Reports, Closed, Closes, IsClosing
  <2> HIDE DEF closes
  <2> QED BY <2>1, <2>4, ReportsStay
<1>8. ASSUME NEW posts, Steps({}, posts), <<"close">> \notin posts,
             UNCHANGED <<life, endpoint, proxy, engines, client>>
      PROVE  Reported'
  <2>1. NothingLeft' <=> NothingLeft
    BY <1>8 DEF NothingLeft, Orphans
  <2>2. Reports(posts)
    BY <1>0, <1>8, <2>1, NoReport
  <2> QED BY <1>8, <2>2, ReportsStay
<1>9. ASSUME NEW e \in Engine, EngineCloses(e) PROVE Reported'
  <2>1. UNCHANGED <<life, endpoint, proxy, engines, client>>
    BY <1>9 DEF EngineCloses
  <2>2. Steps({}, {<<"engine_closed", e>>}) /\ <<"close">> \notin {<<"engine_closed", e>>}
    BY <1>9, OtherActions
  <2> QED BY <1>8, <2>1, <2>2
<1>10. ASSUME NEW e \in Engine, Send(e) PROVE Reported'
  <2>1. UNCHANGED <<life, endpoint, proxy, engines, client>>
    BY <1>10 DEF Send, Sends
  <2>2. Steps({}, {<<"in_msgs">>}) /\ <<"close">> \notin {<<"in_msgs">>}
    BY <1>10, OtherActions
  <2> QED BY <1>8, <2>1, <2>2
<1>11. ASSUME NEW e \in Engine, NEW r \in Engine, HandleStopGraph(e, r) PROVE Reported'
  <2>1. UNCHANGED <<life, endpoint, proxy, engines, client>>
    BY <1>11 DEF HandleStopGraph
  <2>2. Steps({}, {}) \/ Steps({}, {<<"in_msgs">>})
    BY <1>11, OtherActions
  <2>3. <<"close">> \notin {<<"in_msgs">>} /\ <<"close">> \notin {}
    OBVIOUS
  <2> QED BY <1>8, <2>1, <2>2, <2>3
<1>12. ASSUME NEW c \in Client, QuietInClient(c) PROVE Reported'
  <2>0. Steps({}, {})
    BY <1>12, QuietActions
  <2>1. CASE TakeCloseClient(c)
    <3>1. UNCHANGED <<life, endpoint, proxy, engines>>
          /\ client' = [client EXCEPT ![c] = IF @ = "left" THEN "closing" ELSE @]
      BY <2>1 DEF TakeCloseClient
    <3>2. Orphans' = Orphans
      BY <3>1 DEF Orphans, TypeOK
    <3>3. NothingLeft' <=> NothingLeft
      BY <3>1, <3>2 DEF NothingLeft
    <3>4. Reports({})
      BY <1>0, <3>1, <3>3, NoReport
    <3> QED BY <1>1, <2>0, <3>4
  <2>2. CASE ClientLeaves(c)
    <3>1. UNCHANGED <<life, endpoint, proxy, engines>> /\ client' = [client EXCEPT ![c] = "left"]
      BY <2>2 DEF ClientLeaves
    <3>2. c \in Orphans'
      BY <3>1 DEF Orphans, TypeOK
    <3>3. ~NothingLeft /\ ~NothingLeft'
      BY <2>2, <3>2, NothingComes DEF NothingLeft
    <3>4. Reports({})
      BY <1>0, <3>1, <3>3, NoReport
    <3> QED BY <1>1, <2>0, <3>4
  <2>3. CASE ClientClosed(c)
    <3>1. UNCHANGED <<state, loop, endpoint, proxy>> /\ ProceedsIfClosing
      BY <2>3 DEF ClientClosed
    <3>2. ~NothingLeft
      BY <2>3, NothingComes
    <3>3. Reports({})
      BY <1>0, <3>1, <3>2, ReportsOf DEF Reports
    <3> QED BY <1>1, <2>0, <3>3
  <2>4. ASSUME NEW e \in Engine, ClientStartsGraph(c, e) PROVE Reported'
    <3>1. UNCHANGED <<life, endpoint, proxy>>
      BY <2>4 DEF ClientStartsGraph
    <3>2. ~NothingLeft
      BY <2>4, NothingComes
    <3>3. e \in engines'
      BY <2>4 DEF ClientStartsGraph, Creates
    <3>4. ~NothingLeft'
      BY <3>3 DEF NothingLeft
    <3>5. Reports({})
      BY <1>0, <3>1, <3>2, <3>4, NoReport
    <3> QED BY <1>1, <2>0, <3>5
  <2> QED BY <1>12, <2>1, <2>2, <2>3, <2>4 DEF QuietInClient
<1>13. ASSUME NEW c \in Client, Accept(c) PROVE Reported'
  <2>1. UNCHANGED <<life, endpoint, proxy, engines>> /\ endpoint = "listening"
    BY <1>13 DEF Accept
  <2>2. ~NothingLeft /\ ~NothingLeft'
    BY <2>1 DEF NothingLeft
  <2>3. Steps({}, {<<"client_created", c>>}) /\ <<"close">> \notin {<<"client_created", c>>}
    BY <1>13, OtherActions
  <2>4. Reports({<<"client_created", c>>})
    BY <1>0, <2>1, <2>2, <2>3, NoReport
  <2> QED BY <2>3, <2>4, ReportsStay
<1>14. ASSUME NEW c \in Client, TakeClientCreated(c) PROVE Reported'
  <2>1. UNCHANGED <<life, endpoint, proxy, engines>> /\ client' = [client EXCEPT ![c] = "orphan"]
    BY <1>14 DEF TakeClientCreated
  <2>2. c \in Orphans'
    BY <2>1 DEF Orphans, TypeOK
  <2>3. ~NothingLeft /\ ~NothingLeft'
    BY <1>14, <2>2, NothingComes DEF NothingLeft
  <2>4. Reports({})
    BY <1>0, <2>1, <2>3, NoReport
  <2>5. Steps({<<"client_created", c>>}, {}) /\ <<"close">> \notin {<<"client_created", c>>}
    BY <1>14, OtherActions
  <2> QED BY <2>4, <2>5, ReportsStay
<1> QED
  BY <1>2, <1>3, <1>4, <1>5, <1>6, <1>7, <1>9, <1>10, <1>11, <1>12, <1>13, <1>14, LateCases

\* No task of the start is posted again.
LEMMA LateStart ==
    ASSUME TypeOK, ~Early, Later, [Next]_vars
    PROVE  StartOver'
<1> DEFINE start == {<<"metadata">>, <<"loaders_created">>, <<"endpoint_created">>}
<1>0. /\ StartOver
      /\ \A u \in start : u \in Tasks /\ Told(u) /\ u \notin {<<"in_msgs">>} \cup Closes
      /\ \A u \in start, e \in Engine : u # <<"engine_closed", e>>
      /\ \A u \in start, c \in Client : u # <<"client_created", c>>
  BY TaskKinds, ToldKinds DEF Later, Closes
<1>1. ASSUME NEW took, NEW posts, Steps(took, posts), \A u \in start : u \notin posts PROVE StartOver'
  <2>1. ASSUME NEW u \in start PROVE ~Has(tasks', u)
    <3>1. ~Has(tasks, u)
      BY <1>0 DEF StartOver
    <3> QED BY <1>0, <1>1, <3>1 DEF Steps
  <2> QED BY <2>1 DEF StartOver
<1> HIDE DEF start
<1>2. CASE \/ QuietInApp \/ UNCHANGED vars
           \/ \E e \in Engine : QuietInEngine(e)
           \/ \E c \in Client : QuietInClient(c)
  BY <1>1, <1>2, QuietActions
<1>3. CASE TakeClose
  BY <1>1, <1>3, TakeCloseSteps
<1>4. CASE TakeInMsgs
  BY <1>1, <1>4, TakeInMsgsSteps
<1>5. CASE CloseApp \/ HandleCloseApp \/ \E c \in Client : ClientClosesApp(c)
  <2>1. Steps({}, Closes)
    BY <1>5, OtherActions
  <2> QED BY <1>0, <1>1, <2>1
<1>6. ASSUME NEW e \in Engine, TakeEngineClosed(e) PROVE StartOver'
  <2> DEFINE results == IF Answer(e) = <<>> THEN {} ELSE {<<"in_msgs">>}
             closes == IF ~config.long_running /\ engines = {e} THEN Closes ELSE {}
  <2>1. Steps({<<"engine_closed", e>>}, results \cup closes)
    BY <1>6, TakeEngineClosedSteps
  <2>2. \A u \in start : u \notin results \cup closes
    BY <1>0
  <2> HIDE DEF results, closes
  <2> QED BY <1>1, <2>1, <2>2
<1>7. ASSUME NEW e \in Engine, EngineCloses(e) PROVE StartOver'
  <2>1. Steps({}, {<<"engine_closed", e>>})
    BY <1>7, OtherActions
  <2> QED BY <1>0, <1>1, <2>1
<1>8. ASSUME NEW e \in Engine, Send(e) PROVE StartOver'
  <2>1. Steps({}, {<<"in_msgs">>})
    BY <1>8, OtherActions
  <2> QED BY <1>0, <1>1, <2>1
<1>9. ASSUME NEW e \in Engine, NEW r \in Engine, HandleStopGraph(e, r) PROVE StartOver'
  <2>1. Steps({}, {}) \/ Steps({}, {<<"in_msgs">>})
    BY <1>9, OtherActions
  <2> QED BY <1>0, <1>1, <2>1
<1>10. ASSUME NEW c \in Client, Accept(c) PROVE StartOver'
  <2>1. Steps({}, {<<"client_created", c>>})
    BY <1>10, OtherActions
  <2> QED BY <1>0, <1>1, <2>1
<1>11. ASSUME NEW c \in Client, TakeClientCreated(c) PROVE StartOver'
  <2>1. Steps({<<"client_created", c>>}, {})
    BY <1>11, OtherActions
  <2> QED BY <1>1, <2>1
<1> QED BY <1>2, <1>3, <1>4, <1>5, <1>6, <1>7, <1>8, <1>9, <1>10, <1>11, LateCases

\* What the app's runloop refuses.
LEMMA PostRefused ==
    ASSUME NEW q, NEW ts, Post(q, ts),
           loop = "running" \/ \A i \in DOMAIN ts : ts[i][1] = "engine"
    PROVE  refused' = refused
BY DEF Post

\* Without a ten_env_proxy the runloop stops after on_deinit, when nobody is left who posts.
LEMMA LatePosts ==
    ASSUME TypeOK, ~Early, Later, [Next]_vars
    PROVE  PostsSucceedAlone'
<1> USE DEF queues
<1> SUFFICES ASSUME proxy' = "none" PROVE refused' = {}
  BY DEF PostsSucceedAlone
<1>0. /\ PostsSucceedAlone
      /\ proxy = "none" /\ loop # "running" => NothingLeft /\ IsClosing(state)
  BY DEF Later, Deinited
<1>1. ASSUME proxy = "none", refused' = refused PROVE refused' = {}
  BY <1>0, <1>1 DEF PostsSucceedAlone
<1>2. ASSUME NEW q, Post(q, <<>>), proxy = "none" PROVE refused' = {}
  BY <1>1, <1>2, PostRefused
<1>3. ASSUME NEW q, NEW ts, Post(q, ts), proxy = "none", loop = "running" PROVE refused' = {}
  BY <1>1, <1>3, PostRefused
<1>4. CASE QuietInApp \/ UNCHANGED vars
  <2>1. CASE TakeProxyReleased \/ ReleaseProxy \/ CreateProxy
    BY <2>1 DEF TakeProxyReleased, ReleaseProxy, CreateProxy
  <2>2. CASE LoopEnds \/ EndpointClosed \/ OnConfigureDone \/ OnInitDone \/ OnDeinitDone
             \/ UNCHANGED vars
    <3>1. proxy' = proxy /\ refused' = refused
      BY <2>2 DEF LoopEnds, EndpointClosed, OnConfigureDone, OnInitDone, OnDeinitDone, vars, world, Early
    <3> QED BY <1>1, <3>1
  <2> QED BY <1>4, <2>1, <2>2 DEF QuietInApp
<1>5. CASE TakeClose
  <2>1. proxy' = proxy
    BY <1>5 DEF TakeClose
  <2>2. ASSUME NEW q \in Orders(engines), CloseSync(q) PROVE refused' = refused
    <3> DEFINE us == [i \in DOMAIN q |-> <<"engine", q[i], <<"close">>>>]
               ts == IF config.own_loop THEN <<>> ELSE us
    <3>1. \A i \in DOMAIN us : us[i][1] = "engine"
      OBVIOUS
    <3> HIDE DEF us
    <3>2. \A i \in DOMAIN ts : ts[i][1] = "engine"
      BY <3>1
    <3>3. Post(Tail(tasks), ts)
      BY <2>2 DEF CloseSync, Takes, us
    <3> HIDE DEF ts
    <3> QED BY <3>2, <3>3, PostRefused
  <2>3. CASE Takes(<<"close">>, <<>>)
    BY <1>2, <2>1, <2>3 DEF Takes
  <2> QED BY <1>1, <1>5, <2>1, <2>2, <2>3 DEF TakeClose
<1>6. CASE TakeInMsgs
  <2>1. proxy' = proxy /\ refused' = refused
    BY <1>6 DEF TakeInMsgs, world
  <2> QED BY <1>1, <2>1
<1>7. CASE CloseApp \/ HandleCloseApp \/ \E c \in Client : ClientClosesApp(c)
  <2>1. proxy' = proxy /\ Post(tasks, CloseTask)
    BY <1>7 DEF CloseApp, HandleCloseApp, ClientClosesApp, PostToApp, world
  <2>2. loop # "running" => CloseTask = <<>>
    BY <1>0, <2>1 DEF CloseTask
  <2> QED BY <1>2, <1>3, <2>1, <2>2
<1>8. ASSUME NEW e \in Engine, QuietInEngine(e) PROVE refused' = {}
  <2>1. proxy' = proxy
    BY <1>8 DEF QuietInEngine, HandleStartGraph, AppStartsGraph, StopItself, EngineStops,
                EngineTakesClose, EngineTakesStop, HandleResult, world
  <2>2. CASE HandleStartGraph(e) \/ AppStartsGraph(e) \/ EngineStops(e)
             \/ \E r \in Engine : HandleResult(e, r)
    <3>1. refused' = refused
      BY <2>2 DEF HandleStartGraph, AppStartsGraph, EngineStops, HandleResult
    <3> QED BY <1>1, <2>1, <3>1
  <2>3. CASE StopItself(e)
    <3>1. loop = "running"
      BY <1>0, <2>1, <2>3, NothingComes DEF Later
    <3>2. \E ts : Post(tasks, ts)
      BY <2>3 DEF StopItself, PostToEngine
    <3> QED BY <1>3, <2>1, <3>1, <3>2
  <2>4. ASSUME NEW t, NEW ts, EngineTask(e, t, ts) PROVE refused' = {}
    <3>1. CASE config.own_loop
      BY <1>1, <2>1, <2>4, <3>1 DEF EngineTask
    <3>2. CASE ~config.own_loop
      <4> DEFINE us == [i \in DOMAIN ts |-> <<"engine", e, ts[i]>>]
      <4>1. \A i \in DOMAIN us : us[i][1] = "engine"
        OBVIOUS
      <4>2. Post(Tail(tasks), us)
        BY <2>4, <3>2 DEF EngineTask, Takes
      <4> HIDE DEF us
      <4> QED BY <1>1, <2>1, <4>1, <4>2, PostRefused
    <3> QED BY <3>1, <3>2
  <2>5. CASE EngineTakesClose(e) \/ \E r \in Engine : EngineTakesStop(e, r)
    BY <2>4, <2>5 DEF EngineTakesClose, EngineTakesStop
  <2> QED BY <1>8, <2>2, <2>3, <2>5 DEF QuietInEngine
<1>9. ASSUME NEW e \in Engine, TakeEngineClosed(e) \/ EngineCloses(e) \/ Send(e) PROVE refused' = {}
  <2>1. proxy' = proxy
    BY <1>9 DEF TakeEngineClosed, EngineCloses, Send, Sends, world
  <2>2. \E q, ts : Post(q, ts)
    BY <1>9 DEF TakeEngineClosed, EngineCloses, Send, Sends, Takes, PostToApp
  <2>3. loop = "running"
    BY <1>0, <1>9, <2>1, NothingComes
  <2> QED BY <1>3, <2>1, <2>2, <2>3
<1>10. ASSUME NEW e \in Engine, NEW r \in Engine, HandleStopGraph(e, r) PROVE refused' = {}
  <2>1. proxy' = proxy
    BY <1>10 DEF HandleStopGraph, world
  <2>2. \E q, ts : Post(q, ts)
    BY <1>10 DEF HandleStopGraph, PostToEngine
  <2>3. loop = "running"
    BY <1>0, <1>10, <2>1, NothingComes
  <2> QED BY <1>3, <2>1, <2>2, <2>3
<1>11. ASSUME NEW c \in Client, QuietInClient(c) PROVE refused' = {}
  <2>1. proxy' = proxy
    BY <1>11 DEF QuietInClient, TakeCloseClient, ClientLeaves, ClientClosed, ClientStartsGraph, world
  <2>2. CASE TakeCloseClient(c)
    BY <1>2, <2>1, <2>2 DEF TakeCloseClient, Takes
  <2>3. CASE ClientLeaves(c)
    <3>1. loop = "running"
      BY <1>0, <2>1, <2>3, NothingComes
    <3>2. \E ts : Post(tasks, ts)
      BY <2>3 DEF ClientLeaves, PostToApp
    <3> QED BY <1>3, <2>1, <3>1, <3>2
  <2>4. CASE ClientClosed(c) \/ \E e \in Engine : ClientStartsGraph(c, e)
    BY <1>1, <2>1, <2>4 DEF ClientClosed, ClientStartsGraph
  <2> QED BY <1>11, <2>2, <2>3, <2>4 DEF QuietInClient
<1>12. ASSUME NEW c \in Client, Accept(c) \/ TakeClientCreated(c) PROVE refused' = {}
  <2>1. proxy' = proxy
    BY <1>12 DEF Accept, TakeClientCreated
  <2>2. \E q, ts : Post(q, ts)
    BY <1>12 DEF Accept, TakeClientCreated, Takes, PostToApp
  <2>3. loop = "running"
    BY <1>0, <1>12, <2>1, NothingComes
  <2> QED BY <1>3, <2>1, <2>2, <2>3
<1> QED
  BY <1>4, <1>5, <1>6, <1>7, <1>8, <1>9, <1>10, <1>11, <1>12, LateCases

-----------------------------------------------------------------------------
(* The theorems.                                                           *)

LEMMA LifeBegins == Init => LifeInv
<1> SUFFICES ASSUME Init PROVE LifeInv
  OBVIOUS
<1>1. TypeOK
  BY TypeBegins
<1>2. state = "INIT" /\ Early /\ Fresh
  BY DEF Init, Early, Fresh
<1> QED BY <1>1, <1>2 DEF LifeInv

LEMMA LifeNext ==
    ASSUME ClosedInTime, LifeInv, [Next]_vars
    PROVE  LifeInv'
<1>1. TypeOK /\ TypeOK'
  BY TypeNext DEF LifeInv
<1>2. CASE Early
  BY <1>1, <1>2, EarlyNext DEF LifeInv
<1>3. CASE ~Early
  <2>1. Later
    BY <1>3 DEF LifeInv
  <2>2. ~Early'
    BY <1>1, <1>3, <2>1, LateState
  <2>3. Later'
    BY <1>1, <1>3, <2>1, LateStart, LateEngines, LateMessages, LateClients, LateReported, LatePosts
       DEF Later, Reported
  <2> QED BY <1>1, <2>2, <2>3 DEF LifeInv
<1> QED BY <1>2, <1>3

\* The invariant that the properties of the app's close rest on.
THEOREM LifeCorrect == ClosedInTime /\ Spec => []LifeInv
<1>1. ClosedInTime /\ LifeInv /\ [Next]_vars => LifeInv'
  BY LifeNext
<1> SUFFICES ASSUME ClosedInTime PROVE Spec => []LifeInv
  OBVIOUS
<1>2. LifeInv /\ [Next]_vars => LifeInv'
  BY <1>1
<1> QED BY <1>2, LifeBegins, PTL DEF Spec

\* The last to report that it has closed, an engine, a client, the endpoint or the close
\* task itself, finds that nothing is left, and ten_app_proceed_to_close() calls on_deinit;
\* nothing is left when that is done, and an app that listens is deinitialised once.
THEOREM DeinitCorrect == ClosedInTime /\ Spec => []DeinitWhenNothingLeft
<1>1. LifeInv => DeinitWhenNothingLeft
  <2> SUFFICES ASSUME LifeInv PROVE DeinitWhenNothingLeft
    OBVIOUS
  <2>1. CASE Early
    <3>1. state \notin {"CLOSING", "ON_DEINIT_DONE"} /\ deinits = 0
      BY <2>1 DEF LifeInv, Early, Fresh
    <3> QED BY <3>1 DEF DeinitWhenNothingLeft, NothingLeftMeansDeinit, DeinitLeavesNothing, DeinitOnce
  <2>2. CASE ~Early
    <3>1. Later
      BY <2>2 DEF LifeInv
    <3>2. DeinitLeavesNothing
      BY <3>1 DEF Later, Deinited, NothingLeft, DeinitLeavesNothing
    <3> QED BY <3>1, <3>2 DEF Later, DeinitWhenNothingLeft
  <2> QED BY <2>1, <2>2
<1> QED BY <1>1, LifeCorrect, PTL

\* Without a ten_env_proxy no post to the app's runloop is refused: the assertions after
\* each ten_runloop_post_task_tail() hold.
THEOREM PostsCorrect == ClosedInTime /\ Spec => []PostsSucceedAlone
<1>1. LifeInv => PostsSucceedAlone
  BY DEF LifeInv, Fresh, Later, PostsSucceedAlone
<1> QED BY <1>1, LifeCorrect, PTL

=============================================================================
