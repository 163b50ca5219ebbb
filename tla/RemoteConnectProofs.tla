------------------------- MODULE RemoteConnectProofs -------------------------
(***************************************************************************)
(* Proofs about RemoteConnect: its type invariant, and that an engine that *)
(* connects to other apps closes last, is answered once for each, uses     *)
(* nothing that is freed, and enables its extensions last, for every       *)
(* finite set of apps and all numbers of retries.                          *)
(*                                                                         *)
(* The inductive invariant Inv is about each chain for itself (Good), and  *)
(* about the tasks that are posted for it (Tied).  A step moves one chain, *)
(* or, when the engine closes, all of them.  So it is shown first, of a    *)
(* chain taken for itself, that the calls down and the callbacks up keep   *)
(* Good and post only tasks for what is there (Moving, and Calls for a     *)
(* callback), and then that a step that moves one chain so keeps the       *)
(* whole invariant (MovedKeeps).                                           *)
(***************************************************************************)
EXTENDS RemoteConnect, FiniteSetTheorems, TaskQueues

-----------------------------------------------------------------------------
(* The chain towards one app in the midst of a step, when it has tasks to  *)
(* post, and what the calls that close it do to it.                        *)

\* The tasks, and a chain that may have tasks to post.
TaskSet == {CloseTask, <<"start_graph">>} \cup TaskNames \X Remote
Chain == [
    remote : {"none", "init", "closing", "freed"},
    weak : BOOLEAN,
    connection : {"none", "init", "closing", "closed"},
    protocol : {"none", "init", "closing", "closed"},
    uncompleted : BOOLEAN,
    stream : {"none", "open", "closing"},
    attempt : {"none", "first", "retry"},
    context : {"none", "armed", "answered", "freed"},
    timer : {"none", "idle", "started", "closing"},
    timer_closing : BOOLEAN,
    times : Nat,
    answer : {"none", "ok", "error"},
    answers : Nat,
    result : {"none", "sent", "ok", "error", "duplicate"},
    posts : Seq(TaskSet)]

Fields == {"remote", "weak", "connection", "protocol", "uncompleted", "stream", "attempt", "context",
           "timer", "timer_closing", "times", "answer", "answers", "result", "posts"}

\* The chains c and d differ in the fields of S only.
Same(c, d, S) == \A f \in Fields \ S : d[f] = c[f]

\* The tasks about r.
CreatedTask(r) == <<"protocol_created", r>>
StopTask(r) == <<"stop_timer", r>>
CloseTimerTask(r) == <<"close_timer", r>>
CloseProtocol(r) == <<"close_protocol", r>>

\* What ten_timer_stop_async and ten_timer_close_async post.
StopPosts(r, c) == <<StopTask(r)>> \o IF c.timer_closing THEN <<>> ELSE <<CloseTimerTask(r)>>

\* The tasks about r are among the tasks.
LEMMA SomeTasks ==
    ASSUME NEW r \in Remote
    PROVE  {CloseTask, StopTask(r), CloseTimerTask(r), CloseProtocol(r), CreatedTask(r)} \subseteq TaskSet
BY DEF StopTask, CloseTimerTask, CloseProtocol, CreatedTask, TaskSet, TaskNames

\* A timer that is stopped is told to close unless it was told before.
LEMMA PostsOfStop ==
    ASSUME NEW r \in Remote, NEW c \in Chain
    PROVE  /\ StopPosts(r, c) \in Seq(TaskSet)
           /\ \A u : Has(StopPosts(r, c), u) =>
                 u = StopTask(r) \/ (u = CloseTimerTask(r) /\ ~c.timer_closing)
           /\ Once(StopPosts(r, c), CloseTimerTask(r))
           /\ StopPosts(r, c) # <<>>
<1> DEFINE s == StopTask(r)
           t == CloseTimerTask(r)
           last == IF c.timer_closing THEN <<>> ELSE <<t>>
           first == <<s>>
<1>1. s \in TaskSet /\ t \in TaskSet BY SomeTasks
<1>2. s # t BY DEF StopTask, CloseTimerTask
<1>3. StopPosts(r, c) = first \o last BY DEF StopPosts
<1> HIDE DEF s, t
<1>4. first \in Seq(TaskSet) /\ last \in Seq(TaskSet) BY <1>1
<1>5. \A u : Has(first, u) <=> u = s BY HasOne
<1>6. \A u : Has(last, u) => u = t /\ ~c.timer_closing BY HasOne, HasNone
<1>7. Once(last, t) BY HasOne, HasNone
<1>8. ~Has(first, t) BY <1>2, <1>5
<1>9. Len(first) = 1 OBVIOUS
<1> HIDE DEF first, last
<1>10. \A u : Has(first \o last, u) => Has(first, u) \/ Has(last, u) BY <1>4, HasJoined
<1>11. Once(first \o last, t) BY <1>4, <1>7, <1>8, HasJoined
<1>12. first \o last # <<>>
  <2>1. Has(first \o last, s) BY <1>4, <1>5, HasJoined
  <2> QED BY <2>1, HasNone
<1>13. first \o last \in Seq(TaskSet) BY <1>4
<1> QED BY <1>3, <1>5, <1>6, <1>10, <1>11, <1>12, <1>13 DEF s, t

\* Stopping a timer changes nothing else.
LEMMA StopTimerIs ==
    ASSUME NEW r \in Remote, NEW c \in Chain, NEW d, d = StopTimer(r, c)
    PROVE  /\ d \in Chain
           /\ Same(c, d, {"posts", "timer_closing"})
           /\ d.timer_closing = TRUE
           /\ d.posts = c.posts \o StopPosts(r, c)
<1> DEFINE last == IF c.timer_closing THEN <<>> ELSE <<CloseTimerTask(r)>>
           first == <<StopTask(r)>>
           old == c.posts
           all == old \o StopPosts(r, c)
<1>1. first \in Seq(TaskSet) /\ last \in Seq(TaskSet) BY SomeTasks
<1>2. old \in Seq(TaskSet) BY DEF Chain
<1>3. all \in Seq(TaskSet)
  <2> HIDE DEF old
  <2> QED BY <1>2, PostsOfStop
<1>4. (old \o first) \o last = all
  <2>1. StopPosts(r, c) = first \o last BY DEF StopPosts
  <2> HIDE DEF old, first, last
  <2> QED BY <1>1, <1>2, <2>1, ConcatAssociative
<1>5. d = [c EXCEPT !.posts = all, !.timer_closing = TRUE]
  <2>1. d = [c EXCEPT !.posts = (old \o first) \o last, !.timer_closing = TRUE]
    BY DEF StopTimer, StopTask, CloseTimerTask, Chain
  <2> HIDE DEF all, old, first, last
  <2> QED BY <1>4, <2>1
<1> HIDE DEF all
<1>6. d \in Chain BY <1>3, <1>5 DEF Chain
<1>7. Same(c, d, {"posts", "timer_closing"}) BY <1>5 DEF Chain, Same, Fields
<1>8. d.timer_closing = TRUE /\ d.posts = all BY <1>5 DEF Chain
<1> QED BY <1>6, <1>7, <1>8 DEF all

\* A closing protocol closes at once when it has neither stream nor timer.
LEMMA OnCloseIs ==
    ASSUME NEW c \in Chain, NEW d, d = ProtocolOnClose(c)
    PROVE  /\ d \in Chain
           /\ \/ d = c /\ ~(c.protocol = "closing" /\ CouldBeClose(c))
              \/ /\ c.protocol = "closing" /\ CouldBeClose(c)
                 /\ Same(c, d, {"protocol", "connection", "remote"})
                 /\ d.protocol = "closed" /\ d.connection = "closed" /\ d.remote = "freed"
<1>1. CASE c.protocol = "closing" /\ CouldBeClose(c)
  <2>1. d = [c EXCEPT !.protocol = "closed", !.connection = "closed", !.remote = "freed"]
    BY <1>1 DEF ProtocolOnClose
  <2>2. d \in Chain BY ONLY c \in Chain, <2>1 DEF Chain
  <2>3. Same(c, d, {"protocol", "connection", "remote"}) BY <2>1 DEF Chain, Same, Fields
  <2>4. d.protocol = "closed" /\ d.connection = "closed" /\ d.remote = "freed" BY <2>1 DEF Chain
  <2> QED BY <1>1, <2>2, <2>3, <2>4
<1>2. CASE ~(c.protocol = "closing" /\ CouldBeClose(c))
  BY <1>2 DEF ProtocolOnClose
<1> QED BY <1>1, <1>2

-----------------------------------------------------------------------------
(* What closing a chain from above does to it.                             *)

\* The close of c, from above, has led to d: nothing but the states changes, or the protocol
\* begins to close, with a timer that is told to stop, or without one, and then may be closed
\* at once.
StaysFreed(c, d) == d.remote = "freed" <=> c.remote = "freed"

Closes(r, c, d) ==
    /\ d \in Chain
    /\ Same(c, d, {"protocol", "stream", "connection", "remote", "timer_closing", "posts"})
    /\ d.remote = "none" <=> c.remote = "none"
    /\ \/ /\ Same(c, d, {"connection", "remote"})
          /\ StaysFreed(c, d)
       \/ /\ c.protocol = "init"
          /\ d.stream = IF c.stream = "open" THEN "closing" ELSE c.stream
          /\ \/ /\ c.timer # "none"
                /\ d.protocol = "closing" /\ StaysFreed(c, d)
                /\ d.timer_closing /\ d.posts = c.posts \o StopPosts(r, c)
             \/ /\ c.timer = "none"
                /\ d.timer_closing = c.timer_closing /\ d.posts = c.posts
                /\ \/ d.protocol = "closing" /\ ~CouldBeClose(d) /\ StaysFreed(c, d)
                   \/ d.protocol = "closed" /\ CouldBeClose(d) /\ d.remote = "freed"

\* ten_protocol_close, ten_connection_close and ten_remote_close are such.
LEMMA ProtocolCloses ==
    ASSUME NEW r \in Remote, NEW c \in Chain, c.protocol = "init" => c.remote # "none",
           NEW d, d = ProtocolClose(r, c)
    PROVE  Closes(r, c, d)
<1>1. CASE c.protocol # "init"
  <2>1. d = c BY <1>1 DEF ProtocolClose
  <2> QED BY <2>1 DEF Closes, Same, StaysFreed
<1>2. CASE c.protocol = "init"
  <2> DEFINE stream == IF c.stream = "open" THEN "closing" ELSE c.stream
             e == [c EXCEPT !.protocol = "closing", !.stream = stream]
  <2>1. e \in Chain
    <3>1. stream \in {"none", "closing"} BY DEF Chain
    <3> HIDE DEF stream
    <3> QED BY ONLY c \in Chain, <3>1 DEF Chain, e
  <2>2. Same(c, e, {"protocol", "stream"}) BY DEF Chain, Same, Fields
  <2>3. e.protocol = "closing" /\ e.stream = stream BY DEF Chain
  <2>4. d = IF c.timer # "none" THEN StopTimer(r, e) ELSE ProtocolOnClose(e)
    <3>1. e = [c EXCEPT !.protocol = "closing", !.stream = IF @ = "open" THEN "closing" ELSE @]
      BY DEF Chain
    <3> HIDE DEF e
    <3> QED BY <1>2, <3>1 DEF ProtocolClose
  <2> HIDE DEF e
  <2>5. e.timer = c.timer /\ e.timer_closing = c.timer_closing /\ e.posts = c.posts
        /\ e.remote = c.remote /\ e.uncompleted = c.uncompleted
    BY <2>2 DEF Same, Fields
  <2>6. StopPosts(r, e) = StopPosts(r, c) BY <2>5 DEF StopPosts
  <2>7. CASE c.timer # "none"
    <3>1. /\ d \in Chain /\ Same(e, d, {"posts", "timer_closing"}) /\ d.timer_closing = TRUE
          /\ d.posts = e.posts \o StopPosts(r, e)
      BY <2>1, <2>4, <2>7, StopTimerIs
    <3>2. Same(c, d, {"protocol", "stream", "connection", "remote", "timer_closing", "posts"})
      BY <2>2, <3>1 DEF Same
    <3>3. d.remote = c.remote /\ d.protocol = "closing" /\ d.stream = stream
      BY <2>3, <2>5, <3>1 DEF Same, Fields
    <3> QED BY <1>2, <2>5, <2>6, <2>7, <3>1, <3>2, <3>3 DEF Closes, StaysFreed
  <2>8. CASE c.timer = "none"
    <3>1. d = ProtocolOnClose(e) BY <2>4, <2>8
    <3>2. CASE d = e /\ ~(e.protocol = "closing" /\ CouldBeClose(e))
      <4>1. Same(c, d, {"protocol", "stream", "connection", "remote", "timer_closing", "posts"})
        BY <2>2, <3>2 DEF Same
      <4> QED BY <1>2, <2>1, <2>3, <2>5, <2>8, <3>2, <4>1 DEF Closes, StaysFreed
    <3>3. CASE /\ d \in Chain /\ CouldBeClose(e)
               /\ Same(e, d, {"protocol", "connection", "remote"})
               /\ d.protocol = "closed" /\ d.connection = "closed" /\ d.remote = "freed"
      <4>1. Same(c, d, {"protocol", "stream", "connection", "remote", "timer_closing", "posts"})
        BY <2>2, <3>3 DEF Same
      <4>2. d.timer = e.timer /\ d.timer_closing = e.timer_closing /\ d.posts = e.posts
            /\ d.stream = e.stream /\ d.uncompleted = e.uncompleted
        BY <3>3 DEF Same, Fields
      <4>3. CouldBeClose(d) BY <3>3, <4>2 DEF CouldBeClose
      <4> QED BY <1>2, <2>3, <2>5, <2>8, <3>3, <4>1, <4>2, <4>3 DEF Closes
    <3> QED BY <2>1, <3>1, <3>2, <3>3, OnCloseIs
  <2> QED BY <2>7, <2>8
<1> QED BY <1>1, <1>2

\* A close that passes through the connection or the remote.
LEMMA PassesClose ==
    ASSUME NEW r \in Remote, NEW c \in Chain, NEW e \in Chain, NEW d,
           Same(c, e, {"connection", "remote"}), StaysFreed(c, e),
           e.remote = "none" <=> c.remote = "none",
           Closes(r, e, d)
    PROVE  Closes(r, c, d)
<1>1. /\ e.protocol = c.protocol /\ e.stream = c.stream /\ e.timer = c.timer
      /\ e.timer_closing = c.timer_closing /\ e.posts = c.posts
  BY DEF Same, Fields
<1>2. StopPosts(r, e) = StopPosts(r, c) BY <1>1 DEF StopPosts
<1>3. Same(c, d, {"protocol", "stream", "connection", "remote", "timer_closing", "posts"})
  BY DEF Same, Closes
<1>4. Same(e, d, {"connection", "remote"}) => Same(c, d, {"connection", "remote"})
  BY DEF Same
<1>5. StaysFreed(e, d) => StaysFreed(c, d) BY DEF StaysFreed
<1> QED BY <1>1, <1>2, <1>3, <1>4, <1>5 DEF Closes

\* The same from the connection, and from the remote.
LEMMA ConnectionCloses ==
    ASSUME NEW r \in Remote, NEW c \in Chain, c.protocol = "init" => c.remote # "none",
           NEW d, d = ConnectionClose(r, c)
    PROVE  Closes(r, c, d)
<1>1. CASE c.connection # "init"
  <2>1. d = c BY <1>1 DEF ConnectionClose
  <2> QED BY <2>1 DEF Closes, Same, StaysFreed
<1>2. CASE c.connection = "init"
  <2> DEFINE e == [c EXCEPT !.connection = "closing"]
  <2>1. e \in Chain /\ Same(c, e, {"connection", "remote"}) BY DEF Chain, Same, Fields
  <2>2. e.remote = c.remote /\ e.protocol = c.protocol BY DEF Chain
  <2>3. d = ProtocolClose(r, e) BY <1>2 DEF ConnectionClose
  <2> HIDE DEF e
  <2>4. Closes(r, e, d) BY <2>1, <2>2, <2>3, ProtocolCloses
  <2> QED BY <2>1, <2>2, <2>4, PassesClose DEF StaysFreed
<1> QED BY <1>1, <1>2

LEMMA RemoteCloses ==
    ASSUME NEW r \in Remote, NEW c \in Chain, c.protocol = "init" => c.remote # "none",
           NEW d, d = RemoteClose(r, c)
    PROVE  Closes(r, c, d)
<1>1. CASE c.remote # "init"
  <2>1. d = c BY <1>1 DEF RemoteClose
  <2> QED BY <2>1 DEF Closes, Same, StaysFreed
<1>2. CASE c.remote = "init"
  <2> DEFINE e == [c EXCEPT !.remote = "closing"]
  <2>1. e \in Chain /\ Same(c, e, {"connection", "remote"}) BY DEF Chain, Same, Fields
  <2>2. e.remote = "closing" /\ e.protocol = c.protocol BY DEF Chain
  <2>3. d = ConnectionClose(r, e) BY <1>2 DEF RemoteClose
  <2> HIDE DEF e
  <2>4. Closes(r, e, d) BY <2>1, <2>2, <2>3, ConnectionCloses
  <2> QED BY <1>2, <2>1, <2>2, <2>4, PassesClose DEF StaysFreed
<1> QED BY <1>1, <1>2

-----------------------------------------------------------------------------
(* The invariant of a chain, and what a step may do to it.                 *)

\* Nothing is there of a chain.
IsIdle(c) ==
    /\ c.attempt = "none" /\ c.context = "none" /\ c.timer = "none" /\ c.stream = "none"
    /\ ~c.uncompleted /\ ~c.timer_closing /\ c.answer = "none" /\ c.answers = 0 /\ c.result = "none"

\* A remote is freed when its protocol has closed, and that has then neither stream nor timer.
ChainIs(c) ==
    /\ c.remote = "none" => c.protocol \in {"none", "closed"} /\ IsIdle(c)
    /\ c.remote # "none" => /\ c.protocol # "none" /\ c.context # "none"
                            /\ c.remote = "freed" <=> c.protocol = "closed"
    /\ c.protocol = "closed" => CouldBeClose(c)

\* The stream closes with its protocol.
StreamIs(c) ==
    /\ c.stream = "open" => c.protocol = "init"
    /\ c.stream = "closing" => c.protocol = "closing"

\* The context is armed as long as the remote has not been told, and then the protocol waits.
ContextIs(c) ==
    /\ c.context = "armed" => /\ c.uncompleted /\ c.stream = "none"
                              /\ c.answer = "none" /\ c.answers = 0 /\ c.result = "none"
    /\ c.context \in {"answered", "freed"} => c.answers = 1

\* What an attempt to connect needs is there.
AttemptIs(c) ==
    /\ c.attempt = "first" => c.context = "armed" /\ c.timer = "none" /\ ~c.timer_closing
    /\ c.attempt = "retry" /\ c.protocol = "init" => c.context = "armed" /\ c.timer = "idle"

\* A timer has not triggered too often, waits only when there is something to try again, and is
\* not started when it has been told to close.
TimerIs(r, c) ==
    /\ c.times <= MaxRetries[r]
    /\ c.timer # "none" => c.uncompleted /\ c.context \in {"armed", "answered"}
    /\ c.timer = "started" => c.context = "armed" /\ c.attempt = "none" /\ c.times < MaxRetries[r]
    /\ c.timer = "closing" => c.timer_closing
    /\ c.timer_closing /\ c.protocol = "init" => c.attempt = "none" /\ c.timer # "started"

\* The invariant of the chain towards r.
Good(r, c) == ChainIs(c) /\ StreamIs(c) /\ ContextIs(c) /\ AttemptIs(c) /\ TimerIs(r, c)

\* The chain may have posted a stop_timer too many: see TimerOutlivesItsTasks.
Exempt(c) == c.result \in {"sent", "duplicate"} /\ c.protocol # "init"

TasksAbout(r) == {CloseTask, CloseProtocol(r), StopTask(r), CloseTimerTask(r)}

\* A step from c to d posts tasks about r, each for something that is there, and closes the
\* timer only if that was not told yet.
Posting(r, c, d) ==
    /\ \A u : Has(d.posts, u) => u \in TasksAbout(r)
    /\ Once(d.posts, CloseTimerTask(r))
    /\ Has(d.posts, CloseTimerTask(r)) => /\ ~c.timer_closing /\ d.timer_closing
                                          /\ d.timer \in {"idle", "started"}
    /\ Has(d.posts, StopTask(r)) => d.timer # "none"

\* A step moves the chain from c to d, keeps its invariant, and forgets nothing.
Moving(r, c, d) ==
    /\ d \in Chain /\ Good(r, d)
    /\ Posting(r, c, d)
    /\ c.timer_closing => d.timer_closing
    /\ c.result \in {"ok", "duplicate"} => d.result = c.result
    /\ Exempt(c) => Exempt(d)
    /\ c.remote # "none" => d.remote # "none"

\* A step that posts nothing posts nothing wrong.
LEMMA Unposted ==
    ASSUME NEW r \in Remote, NEW c, NEW d, d.posts = <<>>
    PROVE  Posting(r, c, d)
BY HasNone DEF Posting

\* Posts that end with those for the timer are right when the others are.
LEMMA StopPostsAre ==
    ASSUME NEW r \in Remote, NEW c \in Chain, NEW q \in Seq(TaskSet),
           \A u : Has(q, u) => u \in TasksAbout(r), Once(q, CloseTimerTask(r)),
           Has(q, CloseTimerTask(r)) => c.timer_closing
    PROVE  LET p == q \o StopPosts(r, c) IN
           /\ p \in Seq(TaskSet)
           /\ \A u : Has(p, u) => u \in TasksAbout(r)
           /\ Once(p, CloseTimerTask(r))
           /\ Has(p, CloseTimerTask(r)) => Has(q, CloseTimerTask(r)) \/ ~c.timer_closing
<1> DEFINE s == StopPosts(r, c)
           t == CloseTimerTask(r)
<1>1. /\ s \in Seq(TaskSet) /\ Once(s, t)
      /\ \A u : Has(s, u) => u = StopTask(r) \/ (u = t /\ ~c.timer_closing)
  BY PostsOfStop
<1>2. StopTask(r) \in TasksAbout(r) /\ t \in TasksAbout(r) BY DEF TasksAbout
<1>3. StopTask(r) # t BY DEF StopTask, CloseTimerTask
<1> HIDE DEF s, t
<1>4. \A u : Has(q \o s, u) => Has(q, u) \/ Has(s, u) BY <1>1, HasJoined
<1>5. q \o s \in Seq(TaskSet) BY <1>1
<1>6. Once(q \o s, t)
  <2>1. CASE Has(q, t)
    <3>1. ~Has(s, t) BY <1>1, <1>3, <2>1 DEF t
    <3> QED BY <1>1, <3>1, HasJoined DEF t
  <2>2. CASE ~Has(q, t) BY <1>1, <2>2, HasJoined
  <2> QED BY <2>1, <2>2
<1>7. Has(q \o s, t) => Has(q, t) \/ ~c.timer_closing BY <1>1, <1>3, <1>4
<1> QED BY <1>1, <1>2, <1>4, <1>5, <1>6, <1>7 DEF s, t

\* A close from above keeps the invariant of the chain.
LEMMA ClosesKeeps ==
    ASSUME NEW r \in Remote, NEW c \in Chain, c.posts = <<>>, Good(r, c), NEW d, Closes(r, c, d)
    PROVE  Moving(r, c, d)
<1>1. /\ d.weak = c.weak /\ d.uncompleted = c.uncompleted /\ d.attempt = c.attempt
      /\ d.context = c.context /\ d.timer = c.timer /\ d.times = c.times
      /\ d.answer = c.answer /\ d.answers = c.answers /\ d.result = c.result
  BY DEF Closes, Same, Fields
<1>2. Same(c, d, {"connection", "remote"}) =>
         /\ d.protocol = c.protocol /\ d.stream = c.stream /\ d.timer_closing = c.timer_closing
         /\ d.posts = c.posts
  BY DEF Same, Fields
<1>3. c.timer_closing \in BOOLEAN /\ c.uncompleted \in BOOLEAN /\ c.stream \in {"none", "open", "closing"}
      /\ d.timer_closing \in BOOLEAN
  BY DEF Chain, Closes
<1>4. Posting(r, c, d)
  <2>1. CASE d.posts = <<>> BY <2>1, Unposted
  <2>2. CASE d.posts # <<>>
    <3>1. c.timer # "none" /\ d.timer_closing /\ d.posts = c.posts \o StopPosts(r, c)
      BY <1>2, <2>2 DEF Closes
    <3>2. /\ \A u : Has(c.posts \o StopPosts(r, c), u) => u \in TasksAbout(r)
          /\ Once(c.posts \o StopPosts(r, c), CloseTimerTask(r))
          /\ Has(c.posts \o StopPosts(r, c), CloseTimerTask(r)) => ~c.timer_closing
      <4>1. c.posts \in Seq(TaskSet) /\ \A u : ~Has(c.posts, u) BY HasNone DEF Chain
      <4>2. Once(c.posts, CloseTimerTask(r)) BY HasNone
      <4> QED BY <4>1, <4>2, StopPostsAre
    <3>3. ~c.timer_closing => c.timer \in {"idle", "started"} BY <3>1 DEF Good, TimerIs, Chain
    <3> QED BY <1>1, <3>1, <3>2, <3>3 DEF Posting
  <2> QED BY <2>1, <2>2
<1>5. ChainIs(d) BY <1>1, <1>2, <1>3 DEF Closes, StaysFreed, Good, ChainIs, IsIdle, CouldBeClose, StreamIs
<1>6. StreamIs(d) BY <1>1, <1>2, <1>3 DEF Closes, Good, StreamIs, ChainIs, CouldBeClose
<1>7. ContextIs(d) BY <1>1, <1>2, <1>3 DEF Closes, Good, ContextIs
<1>8. AttemptIs(d) BY <1>1, <1>2, <1>3 DEF Closes, Good, AttemptIs
<1>9. TimerIs(r, d) BY <1>1, <1>2, <1>3 DEF Closes, Good, TimerIs
<1>10. Exempt(c) => Exempt(d) BY <1>1, <1>2 DEF Closes, Exempt
<1>11. c.timer_closing => d.timer_closing BY <1>2 DEF Closes
<1>12. c.remote # "none" => d.remote # "none" BY DEF Closes
<1> QED BY <1>1, <1>4, <1>5, <1>6, <1>7, <1>8, <1>9, <1>10, <1>11, <1>12 DEF Moving, Good, Closes

-----------------------------------------------------------------------------
(* The end of an attempt that no timer takes over: the remote is told.     *)

\* The posts of an error.
LEMMA ErrorPostsAre ==
    ASSUME NEW r \in Remote
    PROVE  ErrorPosts(r) \in Seq(TaskSet) /\ \A u : Has(ErrorPosts(r), u) => u = CloseTask
<1> DEFINE t == CloseTask
<1>1. t \in TaskSet BY DEF TaskSet
<1>2. ErrorPosts(r) = <<t, t>> \/ ErrorPosts(r) = <<t>> BY DEF ErrorPosts
<1> HIDE DEF t
<1>3. <<t, t>> \in Seq(TaskSet) /\ <<t>> \in Seq(TaskSet) BY <1>1
<1>4. \A u : Has(<<t, t>>, u) => u = t BY DEF Has
<1>5. \A u : Has(<<t>>, u) => u = t BY DEF Has
<1> QED BY <1>2, <1>3, <1>4, <1>5 DEF t

\* The remote has been told, and that is all.
Told(r, c, e) ==
    /\ e \in Chain /\ Same(c, e, {"answer", "answers", "result", "posts"})
    /\ e.answers = c.answers + 1

LEMMA SetSent ==
    ASSUME NEW c \in Chain
    PROVE  [c EXCEPT !.answer = "ok", !.result = "sent"] \in Chain
BY ZenonT(60) DEF Chain

LEMMA SetError ==
    ASSUME NEW c \in Chain, NEW q \in Seq(TaskSet)
    PROVE  [c EXCEPT !.answer = "error", !.posts = q] \in Chain
BY DEF Chain

\* on_server_connected for a remote that has not been told.
LEMMA ServerConnectedIs ==
    ASSUME NEW r \in Remote, NEW c \in Chain, c.posts = <<>>, c.answer = "none",
           c.protocol = "init" => c.remote # "none",
           NEW success \in BOOLEAN, NEW d, d = OnServerConnected(r, c, success)
    PROVE  \/ /\ success
              /\ Told(r, c, d) /\ d.answer = "ok" /\ d.result = "sent" /\ d.posts = <<>>
           \/ /\ ~success
              /\ \E e \in Chain : /\ Told(r, c, e) /\ e.answer = "error" /\ e.result = c.result
                                  /\ e.posts = ErrorPosts(r)
                                  /\ Closes(r, e, d)
<1>1. c.answers \in Nat /\ c.answers + 1 \in Nat BY DEF Chain
<1> DEFINE f == [c EXCEPT !.answers = @ + 1]
<1>2. f \in Chain /\ Same(c, f, {"answers"}) /\ f.answers = c.answers + 1
  <2>1. f = [c EXCEPT !.answers = c.answers + 1] BY DEF Chain
  <2>2. f \in Chain BY ONLY c \in Chain, <1>1, <2>1 DEF Chain
  <2>3. Same(c, f, {"answers"}) BY <2>1 DEF Chain, Same, Fields
  <2>4. f.answers = c.answers + 1 BY <2>1 DEF Chain
  <2> QED BY <2>2, <2>3, <2>4
<1> HIDE DEF f
<1>3. CASE success
  <2>0. f \in Chain BY <1>2
  <2>1. d = [f EXCEPT !.answer = "ok", !.result = "sent"]
    BY <1>3 DEF OnServerConnected, f
  <2>2. d \in Chain BY <2>0, <2>1, SetSent
  <2>3. Same(f, d, {"answer", "result"}) BY <1>2, <2>1 DEF Chain, Same, Fields
  <2>4. d.answer = "ok" /\ d.result = "sent" BY <1>2, <2>1 DEF Chain
  <2>5. d.answers = f.answers /\ d.posts = f.posts /\ f.posts = c.posts BY <1>2, <2>3 DEF Same, Fields
  <2>6. Same(c, d, {"answer", "answers", "result", "posts"}) BY <1>2, <2>3 DEF Same
  <2> QED BY <1>2, <1>3, <2>2, <2>4, <2>5, <2>6 DEF Told
<1>4. CASE ~success
  <2> DEFINE e == [f EXCEPT !.answer = "error", !.posts = ErrorPosts(r)]
  <2>1. d = RemoteClose(r, e)
    <3> DEFINE posts == ErrorPosts(r)
               none == <<>>
    <3>1. f.posts = none BY <1>2 DEF Same, Fields
    <3>2. posts \in Seq(TaskSet) BY ErrorPostsAre
    <3>3. d = RemoteClose(r, [f EXCEPT !.answer = "error", !.posts = @ \o posts])
      BY <1>4 DEF OnServerConnected, f
    <3> HIDE DEF posts
    <3>4. none \o posts = posts BY <3>2
    <3>5. [f EXCEPT !.answer = "error", !.posts = @ \o posts]
          = [f EXCEPT !.answer = "error", !.posts = posts]
      BY <1>2, <3>1, <3>4 DEF Chain
    <3> QED BY <3>3, <3>5 DEF posts
  <2>2. e \in Chain /\ Same(f, e, {"answer", "posts"}) /\ e.answer = "error" /\ e.posts = ErrorPosts(r)
    <3> DEFINE posts == ErrorPosts(r)
    <3>1. posts \in Seq(TaskSet) BY ErrorPostsAre
    <3>2. e = [f EXCEPT !.answer = "error", !.posts = posts] OBVIOUS
    <3> HIDE DEF posts, e
    <3>0. f \in Chain BY <1>2
    <3>3. e \in Chain BY <3>0, <3>1, <3>2, SetError
    <3>4. Same(f, e, {"answer", "posts"}) BY <1>2, <3>2 DEF Chain, Same, Fields
    <3>5. e.answer = "error" /\ e.posts = posts BY <1>2, <3>2 DEF Chain
    <3> QED BY <3>3, <3>4, <3>5 DEF posts
  <2> HIDE DEF e
  <2>3. Same(c, e, {"answer", "answers", "result", "posts"}) BY <1>2, <2>2 DEF Same
  <2>4. e.answers = f.answers /\ e.result = c.result /\ e.protocol = c.protocol /\ e.remote = c.remote
    BY <1>2, <2>2 DEF Same, Fields
  <2>5. Closes(r, e, d) BY <2>1, <2>2, <2>4, RemoteCloses
  <2>6. Told(r, c, e) BY <1>2, <2>2, <2>3, <2>4 DEF Told
  <2> QED BY <1>4, <2>2, <2>4, <2>5, <2>6
<1> QED BY <1>3, <1>4

\* The remote of c has not been told, and there is no timer.
Bare(c) ==
    /\ c.posts = <<>> /\ c.answer = "none" /\ c.answers = 0 /\ c.result = "none"
    /\ c.timer = "none" /\ c.stream = "none"
    /\ c.protocol \in {"init", "closing"} /\ c.remote \in {"init", "closing"}

\* The remote of c has been told, and the context is gone.
Finished(r, c, success, d) ==
    /\ d \in Chain
    /\ Same(c, d, {"protocol", "connection", "remote", "context", "answer", "answers", "result", "posts"})
    /\ d.context = "freed" /\ d.answers = 1
    /\ d.result = IF success THEN "sent" ELSE "none"
    /\ \A u : Has(d.posts, u) => u = CloseTask
    /\ d.protocol \in {"init", "closing", "closed"}
    /\ c.protocol = "closing" => d.protocol # "init"
    /\ success /\ c.protocol = "init" => d.protocol = "init"
    /\ d.remote # "none" /\ (d.remote = "freed" <=> d.protocol = "closed")
    /\ d.protocol = "closed" => CouldBeClose(d)

\* ten_protocol_integrated_on_server_finally_connected for such a remote.
LEMMA FinallyConnectedIs ==
    ASSUME NEW r \in Remote, NEW c \in Chain, Bare(c), NEW success \in BOOLEAN,
           NEW d, d = FinallyConnected(r, c, success)
    PROVE  Finished(r, c, success, d)
<1> DEFINE b == OnServerConnected(r, c, success)
           e == [b EXCEPT !.context = "freed"]
<1>1. d = ProtocolOnClose(e) BY DEF FinallyConnected
<1>2. \/ /\ success
         /\ Told(r, c, b) /\ b.answer = "ok" /\ b.result = "sent" /\ b.posts = <<>>
      \/ /\ ~success
         /\ \E f \in Chain : /\ Told(r, c, f) /\ f.answer = "error" /\ f.result = c.result
                             /\ f.posts = ErrorPosts(r)
                             /\ Closes(r, f, b)
  BY ServerConnectedIs DEF Bare
<1> HIDE DEF b
<1>3. /\ b \in Chain
      /\ Same(c, b, {"protocol", "connection", "remote", "answer", "answers", "result", "posts"})
      /\ b.answers = 1 /\ b.result = IF success THEN "sent" ELSE "none"
      /\ \A u : Has(b.posts, u) => u = CloseTask
      /\ b.protocol \in {"init", "closing", "closed"}
      /\ c.protocol = "closing" => b.protocol # "init"
      /\ success /\ c.protocol = "init" => b.protocol = "init"
      /\ b.remote # "none" /\ (b.remote = "freed" <=> b.protocol = "closed")
      /\ b.protocol = "closed" => CouldBeClose(b)
  <2>1. CASE success
    <3>1. Told(r, c, b) /\ b.result = "sent" /\ b.posts = <<>> BY <1>2, <2>1
    <3>2. b.protocol = c.protocol /\ b.remote = c.remote BY <3>1 DEF Told, Same, Fields
    <3>3. Same(c, b, {"protocol", "connection", "remote", "answer", "answers", "result", "posts"})
      BY <3>1 DEF Told, Same
    <3>4. b.answers = 1 /\ b \in Chain BY <3>1 DEF Told, Bare
    <3> QED BY <2>1, <3>1, <3>2, <3>3, <3>4, HasNone DEF Bare
  <2>2. CASE ~success
    <3>1. PICK f \in Chain : /\ Told(r, c, f) /\ f.answer = "error" /\ f.result = c.result
                             /\ f.posts = ErrorPosts(r)
                             /\ Closes(r, f, b)
      BY <1>2, <2>2
    <3>2. f.protocol = c.protocol /\ f.remote = c.remote /\ f.timer = "none" /\ f.stream = "none"
          /\ f.timer_closing = c.timer_closing
      BY <3>1 DEF Told, Same, Fields, Bare
    <3>3. Same(f, b, {"connection", "remote"}) =>
             /\ b.protocol = f.protocol /\ b.stream = f.stream /\ b.timer_closing = f.timer_closing
             /\ b.posts = f.posts
      BY DEF Same, Fields
    <3>4. b.stream = f.stream /\ b.timer_closing = f.timer_closing /\ b.posts = f.posts
      BY <3>1, <3>2, <3>3 DEF Closes
    <3>5. Same(f, b, {"protocol", "connection", "remote"})
      BY <3>1, <3>4 DEF Closes, Same, Fields
    <3>6. Same(c, b, {"protocol", "connection", "remote", "answer", "answers", "result", "posts"})
      BY <3>1, <3>5 DEF Told, Same
    <3>7. b.answers = 1 /\ b.result = "none"
      BY <3>1, <3>5 DEF Told, Same, Fields, Bare
    <3>8. \A u : Has(b.posts, u) => u = CloseTask BY <3>1, <3>4, ErrorPostsAre
    <3>9. b \in Chain BY <3>1 DEF Closes
    <3> QED BY <2>2, <3>1, <3>2, <3>3, <3>6, <3>7, <3>8, <3>9 DEF Closes, StaysFreed, Bare
  <2> QED BY <2>1, <2>2
<1>4. e \in Chain /\ Same(b, e, {"context"}) /\ e.context = "freed"
  BY <1>3 DEF Chain, Same, Fields
<1> HIDE DEF e
<1>5. /\ e.protocol = b.protocol /\ e.remote = b.remote /\ e.posts = b.posts /\ e.answers = b.answers
      /\ e.result = b.result /\ e.stream = b.stream /\ e.timer = b.timer
      /\ e.uncompleted = b.uncompleted
  BY <1>4 DEF Same, Fields
<1>6. Same(c, e, {"protocol", "connection", "remote", "context", "answer", "answers", "result", "posts"})
  BY <1>3, <1>4 DEF Same
<1>7. CouldBeClose(e) <=> CouldBeClose(b) BY <1>5 DEF CouldBeClose
<1>8. CASE d = e BY <1>3, <1>4, <1>5, <1>6, <1>7, <1>8 DEF Finished
<1>9. CASE /\ d \in Chain /\ e.protocol = "closing" /\ CouldBeClose(e)
           /\ Same(e, d, {"protocol", "connection", "remote"})
           /\ d.protocol = "closed" /\ d.connection = "closed" /\ d.remote = "freed"
  <2>1. /\ d.posts = e.posts /\ d.answers = e.answers /\ d.result = e.result /\ d.context = e.context
        /\ d.stream = e.stream /\ d.timer = e.timer /\ d.uncompleted = e.uncompleted
    BY <1>9 DEF Same, Fields
  <2>2. Same(c, d, {"protocol", "connection", "remote", "context", "answer", "answers", "result", "posts"})
    BY <1>6, <1>9 DEF Same
  <2>3. CouldBeClose(d) BY <1>9, <2>1 DEF CouldBeClose
  <2>4. ~(success /\ c.protocol = "init") BY <1>3, <1>5, <1>9
  <2> QED BY <1>3, <1>4, <1>5, <1>9, <2>1, <2>2, <2>3, <2>4 DEF Finished
<1> QED BY <1>1, <1>4, <1>8, <1>9, OnCloseIs

-----------------------------------------------------------------------------
(* The end of an attempt of the timer: the remote is told, and the timer   *)
(* is stopped.                                                             *)

\* The remote of c has not been told, and there is a timer.
Trying(c) ==
    /\ c.posts = <<>> /\ c.answer = "none" /\ c.answers = 0 /\ c.result = "none"
    /\ c.timer = "idle"
    /\ c.protocol \in {"init", "closing"} /\ c.remote \in {"init", "closing"}

\* The remote of c has been told, and the timer is told to close.
AnsweredTo(r, c, success, d) ==
    /\ d \in Chain
    /\ Same(c, d, {"protocol", "stream", "connection", "remote", "timer_closing", "posts",
                   "context", "answer", "answers", "result"})
    /\ d.context = "answered" /\ d.answers = 1 /\ d.timer_closing
    /\ d.result = IF success THEN "sent" ELSE "none"
    /\ Posting(r, c, d)
    /\ d.protocol \in {"init", "closing"} /\ d.remote \in {"init", "closing"}
    /\ success => d.protocol = c.protocol /\ d.stream = c.stream
    /\ c.protocol = "closing" => d.protocol = "closing"
    /\ c.stream = "none" => d.stream = "none"

\* One field of a chain is set, and the others stay.
LEMMA SetContext ==
    ASSUME NEW c \in Chain, NEW v \in {"none", "armed", "answered", "freed"}, NEW d,
           d = [c EXCEPT !.context = v]
    PROVE  d \in Chain /\ Same(c, d, {"context"}) /\ d.context = v
<1>1. d \in Chain BY DEF Chain
<1>2. Same(c, d, {"context"}) BY DEF Chain, Same, Fields
<1>3. d.context = v BY DEF Chain
<1> QED BY <1>1, <1>2, <1>3

\* Telling the remote when there is a timer.
LEMMA AnsweredIs ==
    ASSUME NEW r \in Remote, NEW c \in Chain, Trying(c), NEW success \in BOOLEAN,
           NEW d, d = Answered(r, c, success)
    PROVE  AnsweredTo(r, c, success, d)
<1> DEFINE b == OnServerConnected(r, c, success)
           e == [b EXCEPT !.context = "answered"]
           t == CloseTimerTask(r)
<1>1. d = StopTimer(r, e) BY DEF Answered
<1>2. \/ /\ success
         /\ Told(r, c, b) /\ b.answer = "ok" /\ b.result = "sent" /\ b.posts = <<>>
      \/ /\ ~success
         /\ \E f \in Chain : /\ Told(r, c, f) /\ f.answer = "error" /\ f.result = c.result
                             /\ f.posts = ErrorPosts(r)
                             /\ Closes(r, f, b)
  BY ServerConnectedIs DEF Trying
<1> HIDE DEF b
<1>3. /\ b \in Chain
      /\ Same(c, b, {"protocol", "stream", "connection", "remote", "timer_closing", "posts",
                     "answer", "answers", "result"})
      /\ b.answers = 1 /\ b.result = IF success THEN "sent" ELSE "none"
      /\ b.posts \in Seq(TaskSet)
      /\ \A u : Has(b.posts, u) => u \in TasksAbout(r)
      /\ Once(b.posts, t)
      /\ Has(b.posts, t) => b.timer_closing /\ ~c.timer_closing
      /\ c.timer_closing => b.timer_closing
      /\ b.protocol \in {"init", "closing"} /\ b.remote \in {"init", "closing"}
      /\ success => b.protocol = c.protocol /\ b.stream = c.stream
      /\ c.protocol = "closing" => b.protocol = "closing"
      /\ c.stream = "none" => b.stream = "none"
  <2>1. CASE success
    <3>1. Told(r, c, b) /\ b.result = "sent" /\ b.posts = <<>> BY <1>2, <2>1
    <3>2. b.protocol = c.protocol /\ b.remote = c.remote /\ b.stream = c.stream
          /\ b.timer_closing = c.timer_closing
      BY <3>1 DEF Told, Same, Fields
    <3>3. Same(c, b, {"protocol", "stream", "connection", "remote", "timer_closing", "posts",
                      "answer", "answers", "result"})
      BY <3>1 DEF Told, Same
    <3>4. b.answers = 1 /\ b \in Chain BY <3>1 DEF Told, Trying
    <3>5. Once(b.posts, t) /\ \A u : ~Has(b.posts, u) BY <3>1, HasNone
    <3>6. b.posts \in Seq(TaskSet) BY <3>4 DEF Chain
    <3> HIDE DEF t
    <3> QED BY <2>1, <3>1, <3>2, <3>3, <3>4, <3>5, <3>6 DEF Trying
  <2>2. CASE ~success
    <3>1. PICK f \in Chain : /\ Told(r, c, f) /\ f.answer = "error" /\ f.result = c.result
                             /\ f.posts = ErrorPosts(r)
                             /\ Closes(r, f, b)
      BY <1>2, <2>2
    <3>2. f.protocol = c.protocol /\ f.remote = c.remote /\ f.timer = "idle" /\ f.stream = c.stream
          /\ f.timer_closing = c.timer_closing
      BY <3>1 DEF Told, Same, Fields, Trying
    <3>3. Same(f, b, {"connection", "remote"}) =>
             /\ b.protocol = f.protocol /\ b.stream = f.stream /\ b.timer_closing = f.timer_closing
             /\ b.posts = f.posts
      BY DEF Same, Fields
    <3>4. b.posts = f.posts \/ (b.posts = f.posts \o StopPosts(r, f) /\ b.timer_closing)
      BY <3>1, <3>2, <3>3 DEF Closes
    <3>5. Same(c, b, {"protocol", "stream", "connection", "remote", "timer_closing", "posts",
                      "answer", "answers", "result"})
      BY <3>1 DEF Told, Same, Closes
    <3>6. b.answers = f.answers /\ b.result = f.result BY <3>1 DEF Closes, Same, Fields
    <3>7. b.answers = 1 /\ b.result = "none" BY <3>1, <3>6 DEF Told, Trying
    <3>8. /\ f.posts \in Seq(TaskSet) /\ \A u : Has(f.posts, u) => u \in TasksAbout(r)
          /\ ~Has(f.posts, t) /\ Once(f.posts, t)
      <4>1. ErrorPosts(r) \in Seq(TaskSet) /\ \A u : Has(ErrorPosts(r), u) => u = CloseTask
        BY ErrorPostsAre
      <4>2. t # CloseTask /\ CloseTask \in TasksAbout(r)
        BY DEF CloseTimerTask, CloseTask, TasksAbout
      <4>3. ~Has(ErrorPosts(r), t) BY <4>1, <4>2
      <4>4. Once(ErrorPosts(r), t) BY <4>3 DEF Once, Has
      <4> QED BY <3>1, <4>1, <4>2, <4>3, <4>4
    <3>9. /\ f.posts \o StopPosts(r, f) \in Seq(TaskSet)
          /\ \A u : Has(f.posts \o StopPosts(r, f), u) => u \in TasksAbout(r)
          /\ Once(f.posts \o StopPosts(r, f), t)
          /\ Has(f.posts \o StopPosts(r, f), t) => ~c.timer_closing
      BY <3>2, <3>8, StopPostsAre
    <3>10. b.protocol \in {"init", "closing"} /\ b.remote \in {"init", "closing"}
      BY <3>1, <3>2, <3>3 DEF Closes, StaysFreed, Trying, Chain
    <3>11. /\ c.timer_closing => b.timer_closing
           /\ c.protocol = "closing" => b.protocol = "closing"
           /\ c.stream = "none" => b.stream = "none"
      BY <3>1, <3>2, <3>3 DEF Closes
    <3>12. b \in Chain BY <3>1 DEF Closes
    <3> HIDE DEF t
    <3>13. /\ b.posts \in Seq(TaskSet)
           /\ \A u : Has(b.posts, u) => u \in TasksAbout(r)
           /\ Once(b.posts, t)
           /\ Has(b.posts, t) => b.timer_closing /\ ~c.timer_closing
      BY <3>4, <3>8, <3>9
    <3> QED BY <2>2, <3>5, <3>7, <3>10, <3>11, <3>12, <3>13
  <2> QED BY <2>1, <2>2
<1>4. e \in Chain /\ Same(b, e, {"context"}) /\ e.context = "answered"
  BY <1>3, SetContext
<1> HIDE DEF e
<1>5. /\ e.protocol = b.protocol /\ e.remote = b.remote /\ e.posts = b.posts /\ e.answers = b.answers
      /\ e.result = b.result /\ e.stream = b.stream /\ e.timer_closing = b.timer_closing
  BY <1>4 DEF Same, Fields
<1>6. /\ d \in Chain /\ Same(e, d, {"posts", "timer_closing"}) /\ d.timer_closing = TRUE
      /\ d.posts = e.posts \o StopPosts(r, e)
  BY <1>1, <1>4, StopTimerIs
<1>7. /\ d.protocol = e.protocol /\ d.remote = e.remote /\ d.answers = e.answers
      /\ d.result = e.result /\ d.stream = e.stream /\ d.context = e.context
  BY <1>6 DEF Same, Fields
<1>8. Same(c, d, {"protocol", "stream", "connection", "remote", "timer_closing", "posts",
                  "context", "answer", "answers", "result"})
  BY <1>3, <1>4, <1>6 DEF Same
<1>9. /\ \A u : Has(d.posts, u) => u \in TasksAbout(r)
      /\ Once(d.posts, t)
      /\ Has(d.posts, t) => ~c.timer_closing
  <2> DEFINE q == e.posts
             p == q \o StopPosts(r, e)
  <2>1. /\ q \in Seq(TaskSet) /\ \A u : Has(q, u) => u \in TasksAbout(r)
        /\ Once(q, t) /\ (Has(q, t) => e.timer_closing)
    BY <1>3, <1>5
  <2>2. /\ \A u : Has(p, u) => u \in TasksAbout(r)
        /\ Once(p, t)
        /\ Has(p, t) => Has(q, t) \/ ~e.timer_closing
    <3> HIDE DEF q
    <3> QED BY <1>4, <2>1, StopPostsAre
  <2> QED BY <1>3, <1>5, <1>6, <2>2
<1>10. d.timer = "idle" BY <1>8 DEF Same, Fields, Trying
<1>11. Posting(r, c, d) BY <1>6, <1>9, <1>10 DEF Posting
<1> HIDE DEF t
<1> QED BY <1>3, <1>4, <1>5, <1>6, <1>7, <1>8, <1>11 DEF AnsweredTo

-----------------------------------------------------------------------------
(* The first attempt keeps the invariant of the chain.                     *)

\* A callback moves the chain: it leaves a timer that can be stopped one, which a task need not.
Calls(r, c, d) ==
    /\ Moving(r, c, d)
    /\ c.timer \in {"idle", "started"} => d.timer \in {"idle", "started"}
    /\ Has(d.posts, StopTask(r)) /\ d.timer = "closing" => Exempt(d)

\* Most steps post nothing.
LEMMA SilentCalls ==
    ASSUME NEW r \in Remote, NEW c, NEW d \in Chain, d.posts = <<>>, Good(r, d),
           d.timer_closing = c.timer_closing,
           c.timer \in {"idle", "started"} => d.timer \in {"idle", "started"},
           c.result \in {"ok", "duplicate"} => d.result = c.result,
           Exempt(c) => Exempt(d),
           c.remote # "none" => d.remote # "none"
    PROVE  Calls(r, c, d)
BY Unposted, HasNone DEF Calls, Moving

\* Nothing of the result changes that was there, when the context was armed.
LEMMA ArmedIs ==
    ASSUME NEW r \in Remote, NEW c \in Chain, Good(r, c), c.context = "armed"
    PROVE  /\ c.result = "none" /\ ~Exempt(c) /\ c.answer = "none" /\ c.answers = 0
           /\ c.stream = "none" /\ c.uncompleted
           /\ c.protocol \in {"init", "closing"} /\ c.remote \in {"init", "closing"}
BY DEF Good, ContextIs, ChainIs, CouldBeClose, IsIdle, Exempt, Chain

-----------------------------------------------------------------------------
(* The first attempt.                                                      *)

\* What FirstAttemptEnds makes of the chain.
FirstEnds(r, c, success) ==
    IF c.protocol = "closing" THEN FinallyConnected(r, c, FALSE)
    ELSE IF success
    THEN [FinallyConnected(r, c, TRUE) EXCEPT !.stream = "open"]
    ELSE IF MaxRetries[r] = 0 THEN FinallyConnected(r, c, FALSE)
    ELSE RetryLater(r, c)

LEMMA SetStream ==
    ASSUME NEW c \in Chain, NEW v \in {"none", "open", "closing"}, NEW d,
           d = [c EXCEPT !.stream = v]
    PROVE  d \in Chain /\ Same(c, d, {"stream"}) /\ d.stream = v
<1>1. d \in Chain BY DEF Chain
<1>2. Same(c, d, {"stream"}) BY DEF Chain, Same, Fields
<1>3. d.stream = v BY DEF Chain
<1> QED BY <1>1, <1>2, <1>3

LEMMA SetAttempt ==
    ASSUME NEW c \in Chain, NEW v \in {"none", "first", "retry"}, NEW d,
           d = [c EXCEPT !.attempt = v]
    PROVE  d \in Chain /\ Same(c, d, {"attempt"}) /\ d.attempt = v
<1>1. d \in Chain BY DEF Chain
<1>2. Same(c, d, {"attempt"}) BY DEF Chain, Same, Fields
<1>3. d.attempt = v BY DEF Chain
<1> QED BY <1>1, <1>2, <1>3

LEMMA SetTimer ==
    ASSUME NEW c \in Chain, NEW v \in {"none", "idle", "started", "closing"}, NEW d,
           d = [c EXCEPT !.timer = v]
    PROVE  d \in Chain /\ Same(c, d, {"timer"}) /\ d.timer = v
<1>1. d \in Chain BY DEF Chain
<1>2. Same(c, d, {"timer"}) BY DEF Chain, Same, Fields
<1>3. d.timer = v BY DEF Chain
<1> QED BY <1>1, <1>2, <1>3

LEMMA SetUncompleted ==
    ASSUME NEW c \in Chain, NEW v \in BOOLEAN, NEW d,
           d = [c EXCEPT !.uncompleted = v]
    PROVE  d \in Chain /\ Same(c, d, {"uncompleted"}) /\ d.uncompleted = v
<1>1. d \in Chain BY DEF Chain
<1>2. Same(c, d, {"uncompleted"}) BY DEF Chain, Same, Fields
<1>3. d.uncompleted = v BY DEF Chain
<1> QED BY <1>1, <1>2, <1>3

LEMMA SetResult ==
    ASSUME NEW c \in Chain, NEW v \in {"none", "sent", "ok", "error", "duplicate"}, NEW d,
           d = [c EXCEPT !.result = v]
    PROVE  d \in Chain /\ Same(c, d, {"result"}) /\ d.result = v
<1>1. d \in Chain BY DEF Chain
<1>2. Same(c, d, {"result"}) BY DEF Chain, Same, Fields
<1>3. d.result = v BY DEF Chain
<1> QED BY <1>1, <1>2, <1>3

LEMMA SetWeak ==
    ASSUME NEW c \in Chain, NEW v \in BOOLEAN, NEW d,
           d = [c EXCEPT !.weak = v]
    PROVE  d \in Chain /\ Same(c, d, {"weak"}) /\ d.weak = v
<1>1. d \in Chain BY DEF Chain
<1>2. Same(c, d, {"weak"}) BY DEF Chain, Same, Fields
<1>3. d.weak = v BY DEF Chain
<1> QED BY <1>1, <1>2, <1>3

LEMMA SetPosts ==
    ASSUME NEW c \in Chain, NEW v \in Seq(TaskSet), NEW d,
           d = [c EXCEPT !.posts = v]
    PROVE  d \in Chain /\ Same(c, d, {"posts"}) /\ d.posts = v
<1>1. d \in Chain BY DEF Chain
<1>2. Same(c, d, {"posts"}) BY DEF Chain, Same, Fields
<1>3. d.posts = v BY DEF Chain
<1> QED BY <1>1, <1>2, <1>3

LEMMA SetRetry ==
    ASSUME NEW c \in Chain, NEW d, d = [c EXCEPT !.timer = "idle", !.uncompleted = TRUE]
    PROVE  d \in Chain /\ Same(c, d, {"timer", "uncompleted"}) /\ d.timer = "idle" /\ d.uncompleted = TRUE
<1>1. d \in Chain BY DEF Chain
<1>2. Same(c, d, {"timer", "uncompleted"}) BY DEF Chain, Same, Fields
<1>3. d.timer = "idle" /\ d.uncompleted = TRUE BY DEF Chain
<1> QED BY <1>1, <1>2, <1>3

\* A first attempt that ends with the remote told keeps the invariant of the chain, also when a
\* stream is opened then.
LEMMA FinishedFirst ==
    ASSUME NEW r \in Remote, NEW c \in Chain, Good(r, c), c.posts = <<>>, c.attempt = "first",
           NEW a \in Chain, Same(c, a, {"attempt", "uncompleted"}), a.attempt = "none", ~a.uncompleted,
           NEW success \in BOOLEAN, NEW d, Finished(r, a, success, d)
    PROVE  /\ Calls(r, c, d)
           /\ c.protocol # "closing" /\ success => Calls(r, c, [d EXCEPT !.stream = "open"])
<1>1. /\ c.context = "armed" /\ c.timer = "none" /\ ~c.timer_closing BY DEF Good, AttemptIs
<1>2. /\ a.timer = "none" /\ ~a.timer_closing /\ a.stream = c.stream /\ a.times = c.times
      /\ a.protocol = c.protocol /\ a.timer_closing = c.timer_closing /\ a.remote = c.remote
  BY <1>1 DEF Same, Fields
<1>3. /\ d.timer = "none" /\ d.timer_closing = c.timer_closing /\ d.stream = "none" /\ d.times = c.times
      /\ d.attempt = "none" /\ ~d.uncompleted
  BY <1>1, <1>2, ArmedIs DEF Finished, Same, Fields
<1>4. ASSUME NEW e \in Chain, Same(d, e, {"stream"}),
             e.stream = "none" \/ (e.stream = "open" /\ e.protocol = "init")
      PROVE  Calls(r, c, e)
  <2>1. /\ e.timer = "none" /\ e.timer_closing = c.timer_closing /\ e.times = c.times
        /\ e.attempt = "none" /\ ~e.uncompleted /\ e.protocol = d.protocol /\ e.posts = d.posts
        /\ e.remote = d.remote /\ e.context = "freed" /\ e.answers = 1 /\ e.result = d.result
    BY <1>3, <1>4 DEF Same, Fields, Finished
  <2>2. ChainIs(e) BY <1>4, <2>1 DEF ChainIs, Finished, CouldBeClose
  <2>3. StreamIs(e) BY <1>4 DEF StreamIs
  <2>4. ContextIs(e) /\ AttemptIs(e) BY <2>1 DEF ContextIs, AttemptIs
  <2>5. TimerIs(r, e) BY <2>1, <1>1 DEF TimerIs, Good
  <2>6. Posting(r, c, e)
    <3>1. \A u : Has(e.posts, u) => u = CloseTask BY <2>1 DEF Finished
    <3>2. CloseTimerTask(r) # CloseTask /\ StopTask(r) # CloseTask /\ CloseTask \in TasksAbout(r)
      BY DEF CloseTimerTask, StopTask, CloseTask, TasksAbout
    <3>3. ~Has(e.posts, CloseTimerTask(r)) /\ ~Has(e.posts, StopTask(r)) BY <3>1, <3>2
    <3>4. Once(e.posts, CloseTimerTask(r)) BY <3>3 DEF Once, Has
    <3> QED BY <3>1, <3>2, <3>3, <3>4 DEF Posting
  <2>7. c.result = "none" /\ ~Exempt(c) BY <1>1, ArmedIs
  <2>8. e.remote # "none" BY <2>1 DEF Finished
  <2> QED BY <1>1, <1>4, <2>1, <2>2, <2>3, <2>4, <2>5, <2>6, <2>7, <2>8 DEF Calls, Moving, Good
<1>5. Calls(r, c, d)
  <2>1. d \in Chain /\ Same(d, d, {"stream"}) BY DEF Finished, Same
  <2> QED BY <1>3, <1>4, <2>1
<1>6. ASSUME c.protocol # "closing", success PROVE Calls(r, c, [d EXCEPT !.stream = "open"])
  <2> DEFINE e == [d EXCEPT !.stream = "open"]
  <2>1. d.protocol = "init" /\ d \in Chain
    BY <1>1, <1>2, <1>6, ArmedIs DEF Finished
  <2>2. e \in Chain /\ Same(d, e, {"stream"}) /\ e.stream = "open"
    BY <2>1, SetStream
  <2> HIDE DEF e
  <2>3. e.protocol = "init" BY <2>1, <2>2 DEF Same, Fields
  <2>4. Calls(r, c, e) BY <1>4, <2>2, <2>3
  <2> QED BY <2>4 DEF e
<1> QED BY <1>5, <1>6

\* The timer is started again, or stopped when it has triggered often enough.
LEMMA EnableIs ==
    ASSUME NEW r \in Remote, NEW c \in Chain, NEW d, d = Enable(r, c)
    PROVE  /\ d \in Chain
           /\ \/ /\ c.times < MaxRetries[r]
                 /\ Same(c, d, {"timer"}) /\ d.timer = "started"
              \/ /\ Same(c, d, {"posts", "timer_closing"}) /\ d.timer_closing = TRUE
                 /\ d.posts = c.posts \o StopPosts(r, c)
<1>1. CASE c.times >= MaxRetries[r]
  <2>1. d = StopTimer(r, c) BY <1>1 DEF Enable
  <2> QED BY <2>1, StopTimerIs
<1>2. CASE ~(c.times >= MaxRetries[r])
  <2>1. d = [c EXCEPT !.timer = "started"] BY <1>2 DEF Enable
  <2>2. d \in Chain BY <2>1 DEF Chain
  <2>3. Same(c, d, {"timer"}) BY <2>1 DEF Chain, Same, Fields
  <2>4. d.timer = "started" BY <2>1 DEF Chain
  <2>5. c.times < MaxRetries[r] BY <1>2, RemoteConnectAssumption DEF Chain
  <2> QED BY <2>2, <2>3, <2>4, <2>5
<1> QED BY <1>1, <1>2

\* The timer is enabled for the next attempt, or no longer needed.
LEMMA EnableCalls ==
    ASSUME NEW r \in Remote, NEW c \in Chain, Good(r, c), c.posts = <<>>, c.context = "armed",
           c.timer \in {"none", "idle"}, ~c.timer_closing,
           NEW a \in Chain, Same(c, a, {"attempt", "timer"}), a.attempt = "none", a.timer = "idle",
           NEW d, d = Enable(r, a)
    PROVE  Calls(r, c, d)
<1>1. /\ a.times = c.times /\ a.context = "armed" /\ a.posts = <<>> /\ a.remote = c.remote
      /\ a.protocol = c.protocol /\ a.stream = c.stream /\ a.uncompleted = c.uncompleted
      /\ a.answer = c.answer /\ a.answers = c.answers /\ a.result = c.result
      /\ a.timer_closing = c.timer_closing
  BY DEF Same, Fields
<1>2. /\ d \in Chain
      /\ \/ /\ a.times < MaxRetries[r]
            /\ Same(a, d, {"timer"}) /\ d.timer = "started"
         \/ /\ Same(a, d, {"posts", "timer_closing"}) /\ d.timer_closing = TRUE
            /\ d.posts = a.posts \o StopPosts(r, a)
  BY EnableIs
<1>3. /\ d.times = c.times /\ d.context = "armed" /\ d.remote = c.remote /\ d.attempt = "none"
      /\ d.protocol = c.protocol /\ d.stream = c.stream /\ d.uncompleted = c.uncompleted
      /\ d.answer = c.answer /\ d.answers = c.answers /\ d.result = c.result
  BY <1>1, <1>2 DEF Same, Fields
<1>4. \/ d.timer = "started" /\ a.times < MaxRetries[r] /\ d.posts = <<>> /\ ~d.timer_closing
      \/ d.timer = "idle" /\ d.timer_closing /\ d.posts = a.posts \o StopPosts(r, a)
  BY <1>1, <1>2 DEF Same, Fields
<1>5. /\ c.result = "none" /\ ~Exempt(c) /\ c.stream = "none" /\ c.uncompleted
      /\ c.protocol \in {"init", "closing"} /\ c.remote \in {"init", "closing"}
      /\ c.answer = "none" /\ c.answers = 0
  BY ArmedIs
<1>6. ChainIs(d) /\ StreamIs(d) /\ ContextIs(d) /\ AttemptIs(d)
  BY <1>3, <1>5 DEF ChainIs, StreamIs, ContextIs, AttemptIs
<1>7. TimerIs(r, d) BY <1>1, <1>3, <1>4, <1>5 DEF TimerIs, Good
<1>8. Posting(r, c, d)
  <2>1. CASE d.posts = <<>> BY <2>1, Unposted
  <2>2. CASE d.posts = a.posts \o StopPosts(r, a) /\ d.timer = "idle" /\ d.timer_closing
    <3> DEFINE q == a.posts
    <3>1. q \in Seq(TaskSet) /\ (\A u : ~Has(q, u)) /\ Once(q, CloseTimerTask(r))
      BY <1>1, HasNone DEF Chain
    <3>2. /\ \A u : Has(q \o StopPosts(r, a), u) => u \in TasksAbout(r)
          /\ Once(q \o StopPosts(r, a), CloseTimerTask(r))
      <4> HIDE DEF q
      <4> QED BY <3>1, StopPostsAre
    <3> QED BY <2>2, <3>2 DEF Posting
  <2> QED BY <1>4, <2>1, <2>2
<1> QED BY <1>2, <1>3, <1>4, <1>5, <1>6, <1>7, <1>8 DEF Calls, Moving, Good

\* However the first attempt ends.
LEMMA FirstAttemptCalls ==
    ASSUME NEW r \in Remote, NEW c \in Chain, Good(r, c), c.posts = <<>>, c.attempt = "first",
           NEW success \in BOOLEAN, NEW a, a = [c EXCEPT !.attempt = "none", !.uncompleted = FALSE],
           NEW d, d = FirstEnds(r, a, success)
    PROVE  Calls(r, c, d)
<1>1. a \in Chain BY DEF Chain
<1>2. Same(c, a, {"attempt", "uncompleted"}) BY DEF Chain, Same, Fields
<1>3. a.attempt = "none" /\ a.uncompleted = FALSE BY DEF Chain
<1>4. c.context = "armed" /\ c.timer = "none" /\ ~c.timer_closing BY DEF Good, AttemptIs
<1>5. /\ a.posts = c.posts /\ a.answer = c.answer /\ a.answers = c.answers /\ a.result = c.result
      /\ a.timer = c.timer /\ a.stream = c.stream /\ a.protocol = c.protocol /\ a.remote = c.remote
  BY <1>2 DEF Same, Fields
<1>6. Bare(a) BY <1>4, <1>5, ArmedIs DEF Bare
<1>7. ASSUME NEW s \in BOOLEAN
      PROVE  /\ Calls(r, c, FinallyConnected(r, a, s))
             /\ c.protocol # "closing" /\ s
                   => Calls(r, c, [FinallyConnected(r, a, s) EXCEPT !.stream = "open"])
  <2> DEFINE f == FinallyConnected(r, a, s)
  <2>1. Finished(r, a, s, f) BY <1>1, <1>6, FinallyConnectedIs
  <2> HIDE DEF f
  <2>2. /\ Calls(r, c, f)
        /\ c.protocol # "closing" /\ s => Calls(r, c, [f EXCEPT !.stream = "open"])
    BY <1>1, <1>2, <1>3, <2>1, FinishedFirst
  <2> QED BY <2>2 DEF f
<1>8. Calls(r, c, RetryLater(r, a))
  <2> DEFINE b == [a EXCEPT !.timer = "idle", !.uncompleted = TRUE]
  <2>3. b \in Chain /\ Same(a, b, {"timer", "uncompleted"}) /\ b.timer = "idle" /\ b.uncompleted = TRUE
    BY <1>1, SetRetry
  <2>4. RetryLater(r, a) = Enable(r, b) BY DEF RetryLater
  <2> HIDE DEF b
  <2>5. b.attempt = "none" BY <1>3, <2>3 DEF Same, Fields
  <2>6. c.uncompleted = TRUE BY <1>4, ArmedIs DEF Chain
  <2>7. Same(c, b, {"attempt", "timer"}) BY <1>2, <2>3, <2>6 DEF Same, Fields
  <2> QED BY <1>4, <2>3, <2>4, <2>5, <2>7, EnableCalls
<1>9. CASE c.protocol = "closing" BY <1>5, <1>7, <1>9 DEF FirstEnds
<1>10. CASE c.protocol # "closing" BY <1>5, <1>7, <1>8, <1>10 DEF FirstEnds
<1> QED BY <1>9, <1>10

-----------------------------------------------------------------------------
(* So do the timer, the attempts that it makes, and the tasks that stop    *)
(* it.                                                                     *)

-----------------------------------------------------------------------------
(* The timer and the attempts after the first.                             *)

\* The remote is told by an attempt of the timer, or because there is none.
LEMMA AnsweredCalls ==
    ASSUME NEW r \in Remote, NEW c \in Chain, Good(r, c), c.context = "armed",
           c.timer \in {"idle", "started"}, c.posts = <<>>,
           NEW a \in Chain, Same(c, a, {"attempt", "timer", "times", "stream"}),
           a.attempt = "none", a.timer = "idle", a.times <= MaxRetries[r],
           NEW success \in BOOLEAN,
           a.stream = "none" \/ (success /\ a.stream = "open" /\ a.protocol = "init"),
           NEW d, d = Answered(r, a, success)
    PROVE  Calls(r, c, d)
<1>1. /\ a.answer = c.answer /\ a.answers = c.answers /\ a.result = c.result /\ a.posts = c.posts
      /\ a.protocol = c.protocol /\ a.remote = c.remote /\ a.timer_closing = c.timer_closing
      /\ a.uncompleted = c.uncompleted
  BY DEF Same, Fields
<1>2. /\ c.result = "none" /\ ~Exempt(c) /\ c.stream = "none" /\ c.uncompleted
      /\ c.protocol \in {"init", "closing"} /\ c.remote \in {"init", "closing"}
      /\ c.answer = "none" /\ c.answers = 0
  BY ArmedIs
<1>3. Trying(a) BY <1>1, <1>2 DEF Trying
<1>4. AnsweredTo(r, a, success, d) BY <1>3, AnsweredIs
<1>5. /\ d.attempt = "none" /\ d.timer = "idle" /\ d.times = a.times /\ d.uncompleted
      /\ d.context = "answered" /\ d.answers = 1 /\ d.timer_closing
      /\ d.protocol \in {"init", "closing"} /\ d.remote \in {"init", "closing"}
  BY <1>1, <1>2, <1>4 DEF AnsweredTo, Same, Fields
<1>6. StreamIs(d) BY <1>4 DEF AnsweredTo, StreamIs
<1>7. ChainIs(d) /\ ContextIs(d) /\ AttemptIs(d) BY <1>5 DEF ChainIs, ContextIs, AttemptIs
<1>8. TimerIs(r, d) BY <1>5 DEF TimerIs
<1>9. Posting(r, c, d) BY <1>1, <1>4 DEF AnsweredTo, Posting
<1> QED BY <1>2, <1>4, <1>5, <1>6, <1>7, <1>8, <1>9 DEF Calls, Moving, Good, AnsweredTo

\* The timer triggers.
LEMMA TriggerCalls ==
    ASSUME NEW r \in Remote, NEW c \in Chain, Good(r, c), c.posts = <<>>, c.timer = "started",
           NEW a, a = [c EXCEPT !.timer = "idle", !.times = @ + 1]
    PROVE  /\ Calls(r, c, [a EXCEPT !.attempt = "retry"])
           /\ Calls(r, c, Answered(r, a, FALSE))
<1>1. /\ c.context = "armed" /\ c.attempt = "none" /\ c.times < MaxRetries[r]
      /\ ~(c.timer_closing /\ c.protocol = "init")
  BY DEF Good, TimerIs
<1>2. c.times \in Nat /\ c.times + 1 \in Nat /\ MaxRetries[r] \in Nat
  BY RemoteConnectAssumption DEF Chain
<1>3. a = [c EXCEPT !.timer = "idle", !.times = c.times + 1] BY DEF Chain
<1>4. a \in Chain BY <1>2, <1>3 DEF Chain
<1>5. Same(c, a, {"timer", "times"}) BY <1>3 DEF Chain, Same, Fields
<1>6. a.timer = "idle" /\ a.times = c.times + 1 BY <1>3 DEF Chain
<1>7. a.times <= MaxRetries[r] BY <1>1, <1>2, <1>6
<1>8. Same(c, a, {"attempt", "timer", "times", "stream"}) BY <1>5 DEF Same
<1>9. a.attempt = "none" /\ a.stream = "none" BY <1>1, <1>5, ArmedIs DEF Same, Fields
<1>10. Calls(r, c, Answered(r, a, FALSE))
  BY <1>1, <1>4, <1>6, <1>7, <1>8, <1>9, AnsweredCalls
<1>11. Calls(r, c, [a EXCEPT !.attempt = "retry"])
  <2> DEFINE d == [a EXCEPT !.attempt = "retry"]
  <2>1. d \in Chain /\ Same(a, d, {"attempt"}) /\ d.attempt = "retry" BY <1>4, SetAttempt
  <2> HIDE DEF d
  <2>2. Same(c, d, {"attempt", "timer", "times"}) BY <1>5, <2>1 DEF Same
  <2>3. d.timer = "idle" /\ d.times = a.times BY <1>6, <2>1 DEF Same, Fields
  <2>4. /\ d.remote = c.remote /\ d.protocol = c.protocol /\ d.stream = c.stream
        /\ d.context = c.context /\ d.uncompleted = c.uncompleted /\ d.answer = c.answer
        /\ d.answers = c.answers /\ d.result = c.result /\ d.posts = c.posts
        /\ d.timer_closing = c.timer_closing
    BY <2>2 DEF Same, Fields
  <2>5. ChainIs(d) /\ StreamIs(d) /\ ContextIs(d)
    BY <1>1, <2>4, ArmedIs DEF ChainIs, StreamIs, ContextIs, Good
  <2>6. AttemptIs(d) BY <1>1, <2>1, <2>3, <2>4 DEF AttemptIs
  <2>7. TimerIs(r, d) BY <1>1, <1>7, <2>1, <2>3, <2>4, ArmedIs DEF TimerIs
  <2>8. Calls(r, c, d)
    BY <2>1, <2>3, <2>4, <2>5, <2>6, <2>7, SilentCalls DEF Good, Exempt
  <2> QED BY <2>8 DEF d
<1> QED BY <1>10, <1>11

\* What RetryEnds makes of the chain.
RetriesEnds(r, a, success) ==
    IF a.protocol = "closing" THEN a
    ELSE IF success THEN Answered(r, [a EXCEPT !.stream = "open"], TRUE)
    ELSE Enable(r, a)

\* An attempt of the timer ends.
LEMMA RetryCalls ==
    ASSUME NEW r \in Remote, NEW c \in Chain, Good(r, c), c.posts = <<>>, c.attempt = "retry",
           c.protocol # "closed", NEW success \in BOOLEAN,
           NEW a, a = [c EXCEPT !.attempt = "none"], NEW d, d = RetriesEnds(r, a, success)
    PROVE  Calls(r, c, d)
<1>1. a \in Chain /\ Same(c, a, {"attempt"}) /\ a.attempt = "none" BY SetAttempt
<1>2. /\ a.timer = c.timer /\ a.times = c.times /\ a.protocol = c.protocol /\ a.stream = c.stream
      /\ a.remote = c.remote /\ a.context = c.context /\ a.uncompleted = c.uncompleted
      /\ a.answer = c.answer /\ a.answers = c.answers /\ a.result = c.result /\ a.posts = c.posts
      /\ a.timer_closing = c.timer_closing
  BY <1>1 DEF Same, Fields
<1>3. c.protocol \in {"init", "closing"} BY DEF Good, ChainIs, IsIdle, Chain
<1>4. CASE c.protocol = "closing"
  <2>1. d = a BY <1>2, <1>4 DEF RetriesEnds
  <2>2. c.remote # "none" BY DEF Good, ChainIs, IsIdle
  <2>3. ChainIs(a) /\ StreamIs(a) /\ ContextIs(a)
    BY <1>2, <1>4, <2>2 DEF ChainIs, StreamIs, ContextIs, Good
  <2>4. AttemptIs(a) /\ TimerIs(r, a) BY <1>1, <1>2, <1>4 DEF AttemptIs, TimerIs, Good
  <2> QED BY <1>1, <1>2, <2>1, <2>3, <2>4, SilentCalls DEF Good, Exempt
<1>5. CASE c.protocol = "init"
  <2>1. /\ c.context = "armed" /\ c.timer = "idle" /\ ~c.timer_closing /\ c.stream = "none"
    BY <1>5, ArmedIs DEF Good, AttemptIs, TimerIs
  <2>2. CASE ~success
    <3>1. d = Enable(r, a) BY <1>2, <1>5, <2>2 DEF RetriesEnds
    <3>2. Same(c, a, {"attempt", "timer"}) BY <1>1 DEF Same
    <3> QED BY <1>1, <1>2, <2>1, <3>1, <3>2, EnableCalls
  <2>3. CASE success
    <3> DEFINE b == [a EXCEPT !.stream = "open"]
    <3>1. d = Answered(r, b, TRUE) BY <1>2, <1>5, <2>3 DEF RetriesEnds
    <3>2. b \in Chain /\ Same(a, b, {"stream"}) /\ b.stream = "open" BY <1>1, SetStream
    <3> HIDE DEF b
    <3>3. Same(c, b, {"attempt", "timer", "times", "stream"}) BY <1>1, <3>2 DEF Same
    <3>4. b.attempt = "none" /\ b.timer = "idle" /\ b.times = c.times /\ b.protocol = "init"
      <4>1. b.attempt = a.attempt /\ b.timer = a.timer /\ b.times = a.times /\ b.protocol = a.protocol
        BY <3>2 DEF Same, Fields
      <4> QED BY <1>1, <1>2, <1>5, <2>1, <4>1
    <3>5. c.times <= MaxRetries[r] BY DEF Good, TimerIs
    <3> QED BY <2>1, <3>1, <3>2, <3>3, <3>4, <3>5, AnsweredCalls
  <2> QED BY <2>2, <2>3
<1> QED BY <1>3, <1>4, <1>5

\* The tasks that stop a timer, and close it.
LEMMA StopMoves ==
    ASSUME NEW r \in Remote, NEW c \in Chain, Good(r, c), c.posts = <<>>,
           NEW d, d = [c EXCEPT !.timer = IF @ = "started" THEN "idle" ELSE @]
    PROVE  /\ Moving(r, c, d) /\ d.posts = <<>> /\ d.timer_closing = c.timer_closing
           /\ d.timer = IF c.timer = "started" THEN "idle" ELSE c.timer
<1> DEFINE v == IF c.timer = "started" THEN "idle" ELSE c.timer
<1>1. d = [c EXCEPT !.timer = v] BY DEF Chain
<1>2. v \in {"none", "idle", "started", "closing"} BY DEF Chain
<1>3. v = c.timer \/ (c.timer = "started" /\ v = "idle") OBVIOUS
<1>4. d.timer = v /\ d \in Chain /\ Same(c, d, {"timer"})
  <2> HIDE DEF v
  <2> QED BY <1>1, <1>2, SetTimer
<1>5. /\ d.attempt = c.attempt /\ d.times = c.times /\ d.protocol = c.protocol /\ d.stream = c.stream
      /\ d.remote = c.remote /\ d.context = c.context /\ d.uncompleted = c.uncompleted
      /\ d.answer = c.answer /\ d.answers = c.answers /\ d.result = c.result /\ d.posts = c.posts
      /\ d.timer_closing = c.timer_closing
  BY <1>4 DEF Same, Fields
<1>6. ChainIs(d) /\ StreamIs(d) /\ ContextIs(d)
  BY <1>3, <1>4, <1>5 DEF ChainIs, StreamIs, ContextIs, Good, IsIdle, CouldBeClose
<1>7. AttemptIs(d) /\ TimerIs(r, d) BY <1>3, <1>4, <1>5 DEF AttemptIs, TimerIs, Good
<1> QED BY <1>4, <1>5, <1>6, <1>7, Unposted DEF Moving, Good, Exempt

LEMMA CloseMoves ==
    ASSUME NEW r \in Remote, NEW c \in Chain, Good(r, c), c.posts = <<>>,
           c.timer \in {"idle", "started"}, c.timer_closing,
           NEW d, d = [c EXCEPT !.timer = "closing"]
    PROVE  Moving(r, c, d) /\ d.posts = <<>> /\ d.timer = "closing"
<1>1. d.timer = "closing" /\ d \in Chain /\ Same(c, d, {"timer"}) BY SetTimer
<1>2. /\ d.attempt = c.attempt /\ d.times = c.times /\ d.protocol = c.protocol /\ d.stream = c.stream
      /\ d.remote = c.remote /\ d.context = c.context /\ d.uncompleted = c.uncompleted
      /\ d.answer = c.answer /\ d.answers = c.answers /\ d.result = c.result /\ d.posts = c.posts
      /\ d.timer_closing = c.timer_closing
  BY <1>1 DEF Same, Fields
<1>3. ChainIs(d) /\ StreamIs(d) /\ ContextIs(d)
  BY <1>1, <1>2 DEF ChainIs, StreamIs, ContextIs, Good, IsIdle, CouldBeClose
<1>4. AttemptIs(d) /\ TimerIs(r, d) BY <1>1, <1>2 DEF AttemptIs, TimerIs, Good
<1> QED BY <1>1, <1>2, <1>3, <1>4, Unposted DEF Moving, Good, Exempt

-----------------------------------------------------------------------------
(* So do the callbacks of the handles that have closed.                    *)

-----------------------------------------------------------------------------
(* The end of a timer and of a stream, and what the other app does.        *)

\* The protocol looks whether it can close.
LEMMA OnCloseCalls ==
    ASSUME NEW r \in Remote, NEW c, NEW e \in Chain, Calls(r, c, e),
           NEW d, d = ProtocolOnClose(e)
    PROVE  Calls(r, c, d)
<1>1. CASE d = e BY <1>1
<1>2. CASE /\ d \in Chain /\ e.protocol = "closing" /\ CouldBeClose(e)
           /\ Same(e, d, {"protocol", "connection", "remote"})
           /\ d.protocol = "closed" /\ d.connection = "closed" /\ d.remote = "freed"
  <2>1. /\ d.attempt = e.attempt /\ d.times = e.times /\ d.timer = e.timer /\ d.stream = e.stream
        /\ d.context = e.context /\ d.uncompleted = e.uncompleted
        /\ d.answer = e.answer /\ d.answers = e.answers /\ d.result = e.result /\ d.posts = e.posts
        /\ d.timer_closing = e.timer_closing
    BY <1>2 DEF Same, Fields
  <2>2. Good(r, e) BY DEF Calls, Moving
  <2>3. e.remote # "none" BY <1>2, <2>2 DEF Good, ChainIs
  <2>4. CouldBeClose(d) /\ d.stream = "none" /\ d.timer = "none" BY <1>2, <2>1 DEF CouldBeClose
  <2>5. ChainIs(d) BY <1>2, <2>1, <2>2, <2>3, <2>4 DEF Good, ChainIs
  <2>6. StreamIs(d) /\ ContextIs(d) BY <2>1, <2>2, <2>4 DEF Good, StreamIs, ContextIs
  <2>7. AttemptIs(d) /\ TimerIs(r, d) BY <1>2, <2>1, <2>2, <2>4 DEF Good, AttemptIs, TimerIs
  <2>8. Posting(r, c, d) BY <2>1 DEF Posting, Calls, Moving
  <2>9. Exempt(e) => Exempt(d) BY <1>2, <2>1 DEF Exempt
  <2> QED BY <1>2, <2>1, <2>5, <2>6, <2>7, <2>8, <2>9 DEF Calls, Moving, Good
<1> QED BY <1>1, <1>2, OnCloseIs

\* What TimerClosed makes of the chain.
TimerEnds(r, a) ==
    LET d == IF a.context = "armed" THEN FinallyConnected(r, a, FALSE)
                                    ELSE [a EXCEPT !.context = "freed"]
    IN  ProtocolOnClose([d EXCEPT !.uncompleted = FALSE])

\* The timer has closed, and the stream has.
LEMMA TimerClosedCalls ==
    ASSUME NEW r \in Remote, NEW c \in Chain, Good(r, c), c.posts = <<>>, c.timer = "closing",
           NEW a, a = [c EXCEPT !.timer = "none"], NEW d, d = TimerEnds(r, a)
    PROVE  Calls(r, c, d)
<1> DEFINE f == IF a.context = "armed" THEN FinallyConnected(r, a, FALSE)
                                       ELSE [a EXCEPT !.context = "freed"]
           e == [f EXCEPT !.uncompleted = FALSE]
<1>1. a.timer = "none" /\ a \in Chain /\ Same(c, a, {"timer"}) BY SetTimer
<1>2. /\ a.attempt = c.attempt /\ a.times = c.times /\ a.protocol = c.protocol /\ a.stream = c.stream
      /\ a.remote = c.remote /\ a.context = c.context /\ a.uncompleted = c.uncompleted
      /\ a.answer = c.answer /\ a.answers = c.answers /\ a.result = c.result /\ a.posts = c.posts
      /\ a.timer_closing = c.timer_closing
  BY <1>1 DEF Same, Fields
<1>3. /\ c.context \in {"armed", "answered"} /\ c.timer_closing /\ c.remote # "none"
      /\ c.protocol \in {"init", "closing"} /\ c.remote \in {"init", "closing"}
      /\ c.protocol = "init" => c.attempt = "none"
  BY DEF Good, TimerIs, ChainIs, IsIdle, CouldBeClose, Chain
<1>4. /\ f \in Chain /\ f.context = "freed" /\ f.answers = 1
      /\ Same(c, f, {"timer", "protocol", "connection", "remote", "context", "answer", "answers",
                     "result", "posts"})
      /\ f.timer = "none"
      /\ \A u : Has(f.posts, u) => u = CloseTask
      /\ f.protocol \in {"init", "closing", "closed"}
      /\ c.protocol = "closing" => f.protocol # "init"
      /\ f.remote # "none" /\ (f.remote = "freed" <=> f.protocol = "closed")
      /\ f.protocol = "closed" => CouldBeClose(f)
      /\ c.stream = "closing" => f.protocol = c.protocol
      /\ c.stream = "open" => f.protocol = c.protocol
      /\ c.result # "none" => f.result = c.result /\ f.protocol = c.protocol
  <2>1. CASE c.context = "armed"
    <3>1. Bare(a) BY <1>1, <1>2, <1>3, <2>1, ArmedIs DEF Bare
    <3>2. Finished(r, a, FALSE, f) BY <1>1, <1>2, <2>1, <3>1, FinallyConnectedIs
    <3>3. c.stream = "none" /\ c.result = "none" BY <2>1, ArmedIs
    <3> HIDE DEF f
    <3>4. Same(c, f, {"timer", "protocol", "connection", "remote", "context", "answer", "answers",
                      "result", "posts"})
      BY <1>1, <3>2 DEF Finished, Same
    <3>5. f.timer = "none" BY <1>1, <3>2 DEF Finished, Same, Fields
    <3> QED BY <1>2, <3>2, <3>3, <3>4, <3>5 DEF Finished
  <2>2. CASE c.context = "answered"
    <3>1. f = [a EXCEPT !.context = "freed"] BY <1>2, <2>2
    <3> HIDE DEF f
    <3>2. f \in Chain /\ Same(a, f, {"context"}) /\ f.context = "freed" BY <1>1, <3>1, SetContext
    <3>3. f.timer = a.timer /\ f.protocol = a.protocol /\ f.stream = a.stream /\ f.remote = a.remote
          /\ f.answers = a.answers /\ f.result = a.result /\ f.posts = a.posts
      BY <3>2 DEF Same, Fields
    <3>4. Same(c, f, {"timer", "protocol", "connection", "remote", "context", "answer", "answers",
                      "result", "posts"})
      BY <1>1, <3>2 DEF Same
    <3>5. c.answers = 1 BY <2>2 DEF Good, ContextIs
    <3>6. \A u : ~Has(f.posts, u) BY <1>2, <3>3, HasNone
    <3> QED BY <1>1, <1>2, <1>3, <3>2, <3>3, <3>4, <3>5, <3>6
  <2> QED BY <1>3, <2>1, <2>2
<1> HIDE DEF f
<1>5. e \in Chain /\ Same(f, e, {"uncompleted"}) /\ e.uncompleted = FALSE BY <1>4, SetUncompleted
<1> HIDE DEF e
<1>6. /\ e.attempt = f.attempt /\ e.times = f.times /\ e.protocol = f.protocol /\ e.stream = f.stream
      /\ e.remote = f.remote /\ e.context = f.context /\ e.timer = f.timer
      /\ e.answer = f.answer /\ e.answers = f.answers /\ e.result = f.result /\ e.posts = f.posts
      /\ e.timer_closing = f.timer_closing
  BY <1>5 DEF Same, Fields
<1>7. /\ f.attempt = c.attempt /\ f.times = c.times /\ f.stream = c.stream
      /\ f.timer_closing = c.timer_closing
  BY <1>4 DEF Same, Fields
<1>8. ChainIs(e) BY <1>4, <1>5, <1>6 DEF ChainIs, CouldBeClose
<1>9. StreamIs(e)
  <2>1. StreamIs(c) BY DEF Good
  <2> QED BY <1>4, <1>6, <1>7, <2>1 DEF StreamIs
<1>10. ContextIs(e) BY <1>4, <1>6 DEF ContextIs
<1>11. e.protocol = "init" => e.attempt = "none" BY <1>3, <1>4, <1>6, <1>7
<1>12. AttemptIs(e)
  <2>1. c.attempt # "first" BY DEF Good, AttemptIs
  <2> QED BY <1>6, <1>7, <1>11, <2>1 DEF AttemptIs
<1>13. TimerIs(r, e)
  <2>1. c.times <= MaxRetries[r] BY DEF Good, TimerIs
  <2> QED BY <1>4, <1>6, <1>7, <1>11, <2>1 DEF TimerIs
<1>14. Posting(r, c, e)
  <2>1. \A u : Has(e.posts, u) => u = CloseTask BY <1>4, <1>6
  <2>2. CloseTimerTask(r) # CloseTask /\ StopTask(r) # CloseTask /\ CloseTask \in TasksAbout(r)
    BY DEF CloseTimerTask, StopTask, CloseTask, TasksAbout
  <2>3. ~Has(e.posts, CloseTimerTask(r)) /\ ~Has(e.posts, StopTask(r)) BY <2>1, <2>2
  <2>4. Once(e.posts, CloseTimerTask(r)) BY <2>3 DEF Once, Has
  <2> QED BY <2>1, <2>2, <2>3, <2>4 DEF Posting
<1>15. Exempt(c) => Exempt(e) BY <1>3, <1>4, <1>6 DEF Exempt
<1>16. Calls(r, c, e)
  BY <1>3, <1>4, <1>5, <1>6, <1>7, <1>8, <1>9, <1>10, <1>12, <1>13, <1>14, <1>15 DEF Calls, Moving, Good
<1>17. d = ProtocolOnClose(e) BY DEF TimerEnds, e, f
<1> QED BY <1>5, <1>16, <1>17, OnCloseCalls

LEMMA StreamClosedCalls ==
    ASSUME NEW r \in Remote, NEW c \in Chain, Good(r, c), c.posts = <<>>, c.stream = "closing",
           NEW d, d = ProtocolOnClose([c EXCEPT !.stream = "none"])
    PROVE  Calls(r, c, d)
<1> DEFINE e == [c EXCEPT !.stream = "none"]
<1>1. e.stream = "none" /\ e \in Chain /\ Same(c, e, {"stream"}) BY SetStream
<1>2. d = ProtocolOnClose(e) OBVIOUS
<1> HIDE DEF e
<1>3. /\ e.attempt = c.attempt /\ e.times = c.times /\ e.protocol = c.protocol /\ e.timer = c.timer
      /\ e.remote = c.remote /\ e.context = c.context /\ e.uncompleted = c.uncompleted
      /\ e.answer = c.answer /\ e.answers = c.answers /\ e.result = c.result /\ e.posts = c.posts
      /\ e.timer_closing = c.timer_closing
  BY <1>1 DEF Same, Fields
<1>4. ChainIs(e) BY <1>1, <1>3 DEF ChainIs, CouldBeClose, IsIdle, Good
<1>5. StreamIs(e) /\ ContextIs(e) BY <1>1, <1>3 DEF StreamIs, ContextIs, Good
<1>6. AttemptIs(e) /\ TimerIs(r, e) BY <1>1, <1>3 DEF AttemptIs, TimerIs, Good
<1>7. Calls(r, c, e) BY <1>1, <1>3, <1>4, <1>5, <1>6, SilentCalls DEF Good, Exempt
<1> QED BY <1>1, <1>2, <1>7, OnCloseCalls

-----------------------------------------------------------------------------
(* So do what comes from the other app, and the creation of the chain.     *)

\* The peer goes away: a task will close the protocol.
LEMMA PeerCalls ==
    ASSUME NEW r \in Remote, NEW c \in Chain, Good(r, c),
           NEW d, d = [c EXCEPT !.posts = <<CloseProtocol(r)>>]
    PROVE  Calls(r, c, d)
<1> DEFINE q == <<CloseProtocol(r)>>
<1>1. q \in Seq(TaskSet) BY SomeTasks
<1>2. \A u : Has(q, u) => u = CloseProtocol(r) BY HasOne
<1>3. /\ CloseProtocol(r) # CloseTimerTask(r) /\ CloseProtocol(r) # StopTask(r)
      /\ CloseProtocol(r) \in TasksAbout(r)
  BY DEF CloseProtocol, CloseTimerTask, StopTask, TasksAbout
<1>4. Once(q, CloseTimerTask(r)) BY HasOne
<1> HIDE DEF q
<1>5. d \in Chain /\ Same(c, d, {"posts"}) /\ d.posts = q BY <1>1, SetPosts DEF q
<1>6. /\ d.attempt = c.attempt /\ d.times = c.times /\ d.protocol = c.protocol /\ d.timer = c.timer
      /\ d.remote = c.remote /\ d.context = c.context /\ d.uncompleted = c.uncompleted
      /\ d.answer = c.answer /\ d.answers = c.answers /\ d.result = c.result /\ d.stream = c.stream
      /\ d.timer_closing = c.timer_closing
  BY <1>5 DEF Same, Fields
<1>7. Good(r, d)
  BY <1>6 DEF Good, ChainIs, IsIdle, CouldBeClose, StreamIs, ContextIs, AttemptIs, TimerIs
<1>8. ~Has(d.posts, StopTask(r)) /\ ~Has(d.posts, CloseTimerTask(r)) BY <1>2, <1>3, <1>5
<1>9. Posting(r, c, d) BY <1>2, <1>3, <1>4, <1>5, <1>8 DEF Posting
<1> QED BY <1>5, <1>6, <1>7, <1>8, <1>9 DEF Calls, Moving, Exempt

\* A close that comes from a socket of a protocol that has sent its command.
LEMMA ClosesCalls ==
    ASSUME NEW r \in Remote, NEW c \in Chain, c.posts = <<>>, Good(r, c),
           c.result \in {"sent", "duplicate"}, NEW d, Closes(r, c, d)
    PROVE  Calls(r, c, d)
<1>1. Moving(r, c, d) BY ClosesKeeps
<1>2. d.timer = c.timer /\ d.result = c.result BY DEF Closes, Same, Fields
<1>3. Same(c, d, {"connection", "remote"}) => d.posts = <<>> BY DEF Same, Fields
<1>4. ASSUME Has(d.posts, StopTask(r)) PROVE d.protocol = "closing"
  <2>1. d.posts # <<>> BY <1>4, HasNone
  <2> QED BY <1>3, <2>1 DEF Closes
<1> QED BY <1>1, <1>2, <1>4 DEF Calls, Exempt

\* A protocol that is not closing belongs to a remote.
LEMMA InitIsThere ==
    ASSUME NEW r \in Remote, NEW c, Good(r, c)
    PROVE  c.protocol = "init" => c.remote # "none"
BY DEF Good, ChainIs

\* The answer of the other app.
LEMMA ResultCalls ==
    ASSUME NEW r \in Remote, NEW c \in Chain, c.posts = <<>>, Good(r, c),
           c.protocol = "init", c.result = "sent",
           NEW result \in {"ok", "error", "duplicate"}, NEW e, e = [c EXCEPT !.result = result]
    PROVE  /\ e \in Chain /\ Same(c, e, {"result"}) /\ e.result = result
           /\ Good(r, e) /\ e.posts = <<>> /\ Calls(r, c, e)
<1>1. e \in Chain /\ Same(c, e, {"result"}) /\ e.result = result BY SetResult
<1>2. /\ e.attempt = c.attempt /\ e.times = c.times /\ e.protocol = c.protocol /\ e.timer = c.timer
      /\ e.remote = c.remote /\ e.context = c.context /\ e.uncompleted = c.uncompleted
      /\ e.answer = c.answer /\ e.answers = c.answers /\ e.posts = c.posts /\ e.stream = c.stream
      /\ e.timer_closing = c.timer_closing
  BY <1>1 DEF Same, Fields
<1>3. c.context # "armed" BY ArmedIs
<1>4. c.remote # "none" BY InitIsThere
<1>5. ChainIs(e) /\ StreamIs(e) /\ ContextIs(e)
  BY <1>2, <1>3, <1>4 DEF Good, ChainIs, StreamIs, ContextIs, CouldBeClose
<1>6. AttemptIs(e) /\ TimerIs(r, e) BY <1>2 DEF Good, AttemptIs, TimerIs
<1>7. Calls(r, c, e) BY <1>1, <1>2, <1>5, <1>6, SilentCalls DEF Good, Exempt
<1> QED BY <1>1, <1>2, <1>5, <1>6, <1>7 DEF Good

\* The other app answers with an error, or that all is well, or that the connection is not needed.
LEMMA ErrorCalls ==
    ASSUME NEW r \in Remote, NEW c \in Chain, c.posts = <<>>, Good(r, c),
           c.protocol = "init", c.result = "sent", NEW b \in BOOLEAN,
           NEW e, e = [c EXCEPT !.result = "error"],
           NEW d, d = [e EXCEPT !.posts = IF b THEN <<CloseTask>> ELSE <<>>]
    PROVE  Calls(r, c, d)
<1> DEFINE q == IF b THEN <<CloseTask>> ELSE <<>>
<1>1. q \in Seq(TaskSet) BY SomeTasks
<1>2. \A u : Has(q, u) => u = CloseTask BY HasOne, HasNone
<1>3. /\ CloseTask # CloseTimerTask(r) /\ CloseTask # StopTask(r) /\ CloseTask \in TasksAbout(r)
  BY DEF CloseTask, CloseTimerTask, StopTask, TasksAbout
<1>4. ~Has(q, StopTask(r)) /\ ~Has(q, CloseTimerTask(r)) BY <1>2, <1>3
<1>5. Once(q, CloseTimerTask(r)) BY <1>4 DEF Once, Has
<1>6. e \in Chain /\ Calls(r, c, e) BY ResultCalls
<1>7. d = [e EXCEPT !.posts = q] OBVIOUS
<1> HIDE DEF q
<1>8. d \in Chain /\ Same(e, d, {"posts"}) /\ d.posts = q
  <2>1. e \in Chain BY <1>6
  <2> QED BY ONLY <1>1, <1>7, <2>1, SetPosts
<1>9. /\ d.attempt = e.attempt /\ d.times = e.times /\ d.protocol = e.protocol /\ d.timer = e.timer
      /\ d.remote = e.remote /\ d.context = e.context /\ d.uncompleted = e.uncompleted
      /\ d.answer = e.answer /\ d.answers = e.answers /\ d.result = e.result /\ d.stream = e.stream
      /\ d.timer_closing = e.timer_closing
  BY <1>8 DEF Same, Fields
<1>10. Good(r, e) BY <1>6 DEF Calls, Moving
<1>11. Good(r, d)
  BY <1>9, <1>10 DEF Good, ChainIs, IsIdle, CouldBeClose, StreamIs, ContextIs, AttemptIs, TimerIs
<1>12. Posting(r, c, d) BY <1>2, <1>3, <1>4, <1>5, <1>8 DEF Posting
<1> QED BY <1>4, <1>6, <1>8, <1>9, <1>11, <1>12 DEF Calls, Moving, Exempt

LEMMA OkCalls ==
    ASSUME NEW r \in Remote, NEW c \in Chain, c.posts = <<>>, Good(r, c),
           c.protocol = "init", c.result = "sent",
           NEW result \in {"ok", "duplicate"}, NEW e, e = [c EXCEPT !.result = result],
           NEW d, d = IF result = "ok" THEN [e EXCEPT !.weak = FALSE] ELSE ConnectionClose(r, e)
    PROVE  Calls(r, c, d) /\ d.result = result
<1>1. /\ e \in Chain /\ Same(c, e, {"result"}) /\ e.result = result
      /\ Good(r, e) /\ e.posts = <<>> /\ Calls(r, c, e)
  BY ResultCalls
<1>2. CASE result = "ok"
  <2>1. d \in Chain /\ Same(e, d, {"weak"}) BY <1>1, <1>2, SetWeak
  <2>2. /\ d.attempt = e.attempt /\ d.times = e.times /\ d.protocol = e.protocol /\ d.timer = e.timer
        /\ d.remote = e.remote /\ d.context = e.context /\ d.uncompleted = e.uncompleted
        /\ d.answer = e.answer /\ d.answers = e.answers /\ d.result = e.result /\ d.stream = e.stream
        /\ d.timer_closing = e.timer_closing /\ d.posts = e.posts
    BY <2>1 DEF Same, Fields
  <2>3. Good(r, d)
    BY <1>1, <2>2 DEF Good, ChainIs, IsIdle, CouldBeClose, StreamIs, ContextIs, AttemptIs, TimerIs
  <2>4. Posting(r, c, d) BY <1>1, <2>2, Unposted
  <2> QED BY <1>1, <2>1, <2>2, <2>3, <2>4 DEF Calls, Moving, Exempt
<1>3. CASE result = "duplicate"
  <2>1. Closes(r, e, d) BY <1>1, <1>3, InitIsThere, ConnectionCloses
  <2>2. Calls(r, e, d) BY <1>1, <1>3, <2>1, ClosesCalls
  <2>3. d.timer = e.timer /\ d.result = e.result BY ONLY <2>1 DEF Closes, Same, Fields
  <2>4. e.timer_closing = c.timer_closing /\ e.timer = c.timer BY <1>1 DEF Same, Fields
  <2>5. Posting(r, c, d) BY <2>2, <2>4 DEF Calls, Moving, Posting
  <2>6. ~Exempt(c) BY DEF Exempt
  <2> QED BY <1>1, <2>2, <2>3, <2>4, <2>5, <2>6 DEF Calls, Moving
<1> QED BY <1>2, <1>3

-----------------------------------------------------------------------------
(* A protocol is there.                                                    *)

\* A chain that is not there is in its first state.
LEMMA NothingIs == Nothing \in Chain /\ IsIdle(Nothing) /\ Nothing.posts = <<>> /\ Nothing.times = 0
                   /\ Nothing.remote = "none"
<1>1. <<>> \in Seq(TaskSet) OBVIOUS
<1>2. Nothing \in Chain BY <1>1 DEF Nothing, Chain
<1>3. IsIdle(Nothing) BY DEF Nothing, IsIdle
<1>4. Nothing.posts = <<>> /\ Nothing.times = 0 /\ Nothing.remote = "none" BY DEF Nothing
<1> QED BY <1>2, <1>3, <1>4

\* There is nothing yet for the app.
LEMMA UnbornIs ==
    ASSUME NEW r \in Remote, NEW c \in Chain, Good(r, c), c.protocol = "none"
    PROVE  c.remote = "none" /\ IsIdle(c)
BY DEF Good, ChainIs

LEMMA SetClosed ==
    ASSUME NEW c \in Chain, NEW d, d = [c EXCEPT !.protocol = "closed"]
    PROVE  d \in Chain /\ Same(c, d, {"protocol"}) /\ d.protocol = "closed"
<1>1. d \in Chain BY DEF Chain
<1>2. Same(c, d, {"protocol"}) BY DEF Chain, Same, Fields
<1>3. d.protocol = "closed" BY DEF Chain
<1> QED BY <1>1, <1>2, <1>3

\* The engine refuses the protocol, or connects with it.
LEMMA RefusedMoves ==
    ASSUME NEW r \in Remote, NEW c \in Chain, Good(r, c), c.protocol = "none",
           NEW d, d = [Nothing EXCEPT !.protocol = "closed"]
    PROVE  Moving(r, c, d) /\ d.protocol = "closed" /\ d.remote = "none" /\ d.posts = <<>>
           /\ d.timer = "none"
<1> DEFINE n == Nothing
<1>1. n \in Chain /\ IsIdle(n) /\ n.posts = <<>> /\ n.times = 0 /\ n.remote = "none" BY NothingIs
<1>2. d = [n EXCEPT !.protocol = "closed"] OBVIOUS
<1> HIDE DEF n
<1>3. d \in Chain /\ Same(n, d, {"protocol"}) /\ d.protocol = "closed" BY <1>1, <1>2, SetClosed
<1>4. Same(n, d, {"protocol"}) BY <1>3
<1>5. d.protocol = "closed" BY <1>3
<1>6. /\ d.attempt = n.attempt /\ d.times = n.times /\ d.timer = n.timer
      /\ d.remote = n.remote /\ d.context = n.context /\ d.uncompleted = n.uncompleted
      /\ d.answer = n.answer /\ d.answers = n.answers /\ d.result = n.result /\ d.stream = n.stream
      /\ d.timer_closing = n.timer_closing /\ d.posts = n.posts
  BY <1>4 DEF Same, Fields
<1>7. MaxRetries[r] \in Nat BY RemoteConnectAssumption
<1>8. Good(r, d)
  BY <1>1, <1>5, <1>6, <1>7
     DEF Good, ChainIs, IsIdle, CouldBeClose, StreamIs, ContextIs, AttemptIs, TimerIs
<1>9. ~Exempt(c) /\ c.result = "none" /\ ~c.timer_closing /\ c.remote = "none"
  BY UnbornIs DEF Exempt, IsIdle
<1> QED BY <1>1, <1>3, <1>5, <1>6, <1>8, <1>9, Unposted DEF Moving, IsIdle

\* A chain that is there.
Begun == [Nothing EXCEPT !.remote = "init", !.weak = TRUE, !.connection = "init", !.protocol = "init"]

LEMMA SetBegun ==
    ASSUME NEW n \in Chain, NEW d,
           d = [n EXCEPT !.remote = "init", !.weak = TRUE, !.connection = "init", !.protocol = "init"]
    PROVE  /\ d \in Chain /\ Same(n, d, {"remote", "weak", "connection", "protocol"})
           /\ d.remote = "init" /\ d.protocol = "init"
<1>1. d \in Chain BY ZenonT(60) DEF Chain
<1>2. Same(n, d, {"remote", "weak", "connection", "protocol"}) BY DEF Chain, Same, Fields
<1>3. d.remote = "init" /\ d.protocol = "init" BY DEF Chain
<1> QED BY <1>1, <1>2, <1>3

LEMMA SetConnect ==
    ASSUME NEW n \in Chain, NEW d,
           d = [n EXCEPT !.attempt = "first", !.context = "armed", !.uncompleted = TRUE]
    PROVE  /\ d \in Chain /\ Same(n, d, {"attempt", "context", "uncompleted"})
           /\ d.attempt = "first" /\ d.context = "armed" /\ d.uncompleted
<1>1. d \in Chain BY DEF Chain
<1>2. Same(n, d, {"attempt", "context", "uncompleted"}) BY DEF Chain, Same, Fields
<1>3. d.attempt = "first" /\ d.context = "armed" /\ d.uncompleted BY DEF Chain
<1> QED BY <1>1, <1>2, <1>3

LEMMA ConnectingMoves ==
    ASSUME NEW r \in Remote, NEW c \in Chain, Good(r, c), c.protocol = "none",
           NEW d \in {Connect(Begun), FinallyConnected(r, Begun, FALSE)}
    PROVE  Moving(r, c, d) /\ d.protocol # "none" /\ d.timer = "none"
<1> DEFINE n == Nothing
           b == Begun
<1>1. n \in Chain /\ IsIdle(n) /\ n.posts = <<>> /\ n.times = 0 /\ n.remote = "none" BY NothingIs
<1>2. b = [n EXCEPT !.remote = "init", !.weak = TRUE, !.connection = "init", !.protocol = "init"]
  BY DEF Begun
<1>3. d = Connect(b) \/ d = FinallyConnected(r, b, FALSE) OBVIOUS
<1> HIDE DEF n, b
<1>4. /\ b \in Chain /\ Same(n, b, {"remote", "weak", "connection", "protocol"})
      /\ b.remote = "init" /\ b.protocol = "init"
  BY <1>1, <1>2, SetBegun
<1>5. /\ b.attempt = n.attempt /\ b.times = n.times /\ b.timer = n.timer
      /\ b.context = n.context /\ b.uncompleted = n.uncompleted
      /\ b.answer = n.answer /\ b.answers = n.answers /\ b.result = n.result /\ b.stream = n.stream
      /\ b.timer_closing = n.timer_closing /\ b.posts = n.posts
  BY <1>4 DEF Same, Fields
<1>6. MaxRetries[r] \in Nat BY RemoteConnectAssumption
<1>7. ~Exempt(c) /\ c.result = "none" /\ ~c.timer_closing BY UnbornIs DEF Exempt, IsIdle
<1>8. CASE d = Connect(b)
  <2>1. d = [b EXCEPT !.attempt = "first", !.context = "armed", !.uncompleted = TRUE]
    BY <1>8 DEF Connect
  <2>2. /\ d \in Chain /\ Same(b, d, {"attempt", "context", "uncompleted"})
        /\ d.attempt = "first" /\ d.context = "armed" /\ d.uncompleted
    BY <1>4, <2>1, SetConnect
  <2>3. /\ d.times = b.times /\ d.timer = b.timer /\ d.remote = b.remote /\ d.protocol = b.protocol
        /\ d.answer = b.answer /\ d.answers = b.answers /\ d.result = b.result /\ d.stream = b.stream
        /\ d.timer_closing = b.timer_closing /\ d.posts = b.posts
    BY <2>2 DEF Same, Fields
  <2>4. Good(r, d)
    BY <1>1, <1>4, <1>5, <1>6, <2>2, <2>3
       DEF Good, ChainIs, IsIdle, StreamIs, ContextIs, AttemptIs, TimerIs
  <2> QED BY <1>1, <1>4, <1>5, <1>7, <2>2, <2>3, <2>4, Unposted DEF Moving, IsIdle
<1>9. CASE d = FinallyConnected(r, b, FALSE)
  <2>1. Bare(b) BY <1>1, <1>4, <1>5 DEF Bare, IsIdle
  <2>2. Finished(r, b, FALSE, d) BY <1>4, <1>9, <2>1, FinallyConnectedIs
  <2>3. /\ d.times = b.times /\ d.timer = b.timer /\ d.stream = b.stream /\ d.attempt = b.attempt
        /\ d.timer_closing = b.timer_closing /\ d.uncompleted = b.uncompleted
    BY <2>2 DEF Finished, Same, Fields
  <2>4. Good(r, d)
    BY <1>1, <1>5, <1>6, <2>2, <2>3
       DEF Good, ChainIs, IsIdle, StreamIs, ContextIs, AttemptIs, TimerIs, Finished, CouldBeClose
  <2>5. Posting(r, c, d)
    <3>1. \A u : Has(d.posts, u) => u = CloseTask BY <2>2 DEF Finished
    <3>2. CloseTimerTask(r) # CloseTask /\ StopTask(r) # CloseTask /\ CloseTask \in TasksAbout(r)
      BY DEF CloseTimerTask, StopTask, CloseTask, TasksAbout
    <3>3. ~Has(d.posts, CloseTimerTask(r)) /\ ~Has(d.posts, StopTask(r)) BY <3>1, <3>2
    <3>4. Once(d.posts, CloseTimerTask(r)) BY <3>3 DEF Once, Has
    <3> QED BY <3>1, <3>2, <3>3, <3>4 DEF Posting
  <2> QED BY <1>1, <1>5, <1>7, <2>2, <2>3, <2>4, <2>5 DEF Moving, Finished, IsIdle
<1> QED BY <1>3, <1>8, <1>9

-----------------------------------------------------------------------------
(* The invariant: of all the chains, and of the tasks about them.          *)

\* The task that brings the command.
StartTask == <<"start_graph">>

\* The engine waits for the creation of the protocol.
Pending(r) == r \in creating \/ Has(tasks, CreatedTask(r))

\* The tasks about r: each is there once, for something that exists; a chain does not exist
\* before the engine is told of its protocol.
Tied(r) ==
    /\ Once(tasks, CreatedTask(r)) /\ Once(tasks, CloseTimerTask(r))
    /\ Has(tasks, CloseTimerTask(r)) => conn[r].timer \in {"idle", "started"} /\ conn[r].timer_closing
    /\ Has(tasks, StopTask(r)) =>
          \/ Exempt(conn[r])
          \/ conn[r].timer \in {"idle", "started"}
          \/ conn[r].timer = "closing" /\ phase = "drain"
    /\ Pending(r) => conn[r].protocol = "none"
    /\ ~(r \in creating /\ Has(tasks, CreatedTask(r)))

\* The command arrives once, and first.
StartOnce ==
    /\ Once(tasks, StartTask)
    /\ Has(tasks, StartTask) => \A r \in Remote : conn[r].protocol = "none" /\ ~Pending(r)

\* The app has started its part of the graph.
HasAnswered(c) == c.result \in {"ok", "duplicate"}

\* Whom the engine does not wait for has answered.
AnswersAre ==
    /\ start = "connecting" => \A r \in Remote \ waiting : HasAnswered(conn[r])
    /\ start = "enabled" => \A r \in Remote : HasAnswered(conn[r])

\* An engine that waits for a protocol knows it, or has been told of another one.
NoneForgotten ==
    (\E r \in Remote : Pending(r)) /\ ~uncompleted => \E r \in Remote : conn[r].protocol # "none"

\* A closed engine waits for nothing.
ClosedIs ==
    engine = "closed" => ~uncompleted /\ \A r \in Remote : conn[r].remote \in {"none", "freed"}

\* The inductive invariant.
Chains == \A r \in Remote : Good(r, conn[r])
Ties == \A r \in Remote : Tied(r)

Inv == TypeOK /\ Chains /\ Ties /\ StartOnce /\ AnswersAre /\ NoneForgotten /\ ClosedIs

LEMMA TasksTyped == TypeOK => tasks \in Seq(TaskSet) /\ conn \in [Remote -> Conn]
BY DEF TypeOK, TaskSet

\* Between two steps a chain has no tasks to post.
LEMMA ConnIs ==
    ASSUME TypeOK, NEW r \in Remote
    PROVE  conn[r] \in Chain /\ conn[r].posts = <<>>
<1>1. conn[r] \in Conn BY DEF TypeOK
<1>2. <<>> \in Seq(TaskSet) OBVIOUS
<1> QED BY <1>1, <1>2 DEF Conn, Chain

\* Between two steps nothing is left of what a step has posted.
Rest(d) == [d EXCEPT !.posts = <<>>]

\* Clearing the posts keeps the invariant of the chain.
LEMMA RestIs ==
    ASSUME NEW r \in Remote, NEW d \in Chain
    PROVE  /\ Rest(d) \in Conn
           /\ Rest(d).timer = d.timer /\ Rest(d).timer_closing = d.timer_closing
           /\ Rest(d).protocol = d.protocol /\ Rest(d).remote = d.remote
           /\ Rest(d).result = d.result
           /\ Exempt(Rest(d)) <=> Exempt(d)
           /\ Good(r, d) => Good(r, Rest(d))
<1> DEFINE e == Rest(d)
           none == <<>>
<1>1. e = [d EXCEPT !.posts = none] BY DEF Rest
<1>2. e \in Conn BY <1>1 DEF Chain, Conn
<1>3. none \in Seq(TaskSet) OBVIOUS
<1> HIDE DEF e, none
<1>4. Same(d, e, {"posts"}) BY <1>1, <1>3, SetPosts
<1>5. /\ e.attempt = d.attempt /\ e.times = d.times /\ e.protocol = d.protocol /\ e.timer = d.timer
      /\ e.remote = d.remote /\ e.context = d.context /\ e.uncompleted = d.uncompleted
      /\ e.answer = d.answer /\ e.answers = d.answers /\ e.result = d.result /\ e.stream = d.stream
      /\ e.timer_closing = d.timer_closing
  BY <1>4 DEF Same, Fields
<1>6. Good(r, d) => Good(r, e)
  BY <1>5 DEF Good, ChainIs, IsIdle, CouldBeClose, StreamIs, ContextIs, AttemptIs, TimerIs
<1>7. Exempt(e) <=> Exempt(d) BY <1>5 DEF Exempt
<1> QED BY <1>2, <1>5, <1>6, <1>7 DEF e

\* Tasks that are about different things differ.
LEMMA TaskNamesDiffer ==
    ASSUME NEW r \in Remote, NEW s \in Remote
    PROVE  /\ CreatedTask(r) \notin TasksAbout(s) /\ StartTask \notin TasksAbout(s)
           /\ r # s => StopTask(r) \notin TasksAbout(s) /\ CloseTimerTask(r) \notin TasksAbout(s)
           /\ CloseTask # CreatedTask(r) /\ CloseTask # StopTask(r) /\ CloseTask # CloseTimerTask(r)
           /\ CloseTask # StartTask /\ StartTask # CreatedTask(r)
           /\ CloseTask \in TaskSet /\ CloseTask \in TasksAbout(r)
<1> DEFINE a == <<"close_engine">>
           b == <<"start_graph">>
<1>1. CloseTask \in TaskSet BY SomeTasks DEF TaskSet
<1>2. Len(a) = 1 /\ Len(b) = 1 /\ a[1] # b[1] OBVIOUS
<1>3. \A n : Len(<<n, r>>) = 2 /\ Len(<<n, s>>) = 2 OBVIOUS
<1>4. a # b BY <1>2
<1>5. \A n : a # <<n, r>> /\ b # <<n, r>> /\ b # <<n, s>> /\ a # <<n, s>> BY <1>2, <1>3
<1> QED BY <1>1, <1>4, <1>5 DEF CreatedTask, StopTask, CloseTimerTask, CloseProtocol, TasksAbout, CloseTask, StartTask

\* What a step on the chain towards r does to the tasks.
LEMMA BecomeTasks ==
    ASSUME NEW r \in Remote, NEW d \in Chain, NEW rest \in Seq(TaskSet), Become(r, d, rest)
    PROVE  /\ tasks' \in Seq(TaskSet)
           /\ \A u : Has(tasks', u) => Has(rest, u) \/ Has(d.posts, u) \/ u = CloseTask
           /\ \A u : u # CloseTask /\ Once(rest, u) /\ ~Has(d.posts, u) => Once(tasks', u)
           /\ \A u : u # CloseTask /\ Once(d.posts, u) /\ ~Has(rest, u) => Once(tasks', u)
<1> DEFINE q == d.posts
           last == IF Freed(r, d) /\ ~is_closing /\ ~d.weak /\ ~LongRunning THEN <<CloseTask>> ELSE <<>>
           p == rest \o q
<1>1. tasks' = p \o last BY DEF Become
<1>2. q \in Seq(TaskSet) BY DEF Chain
<1>3. last \in Seq(TaskSet)
  <2>1. CloseTask \in TaskSet BY SomeTasks DEF TaskSet
  <2> HIDE DEF q, p
  <2> QED BY <2>1
<1>4. \A u : Has(last, u) => u = CloseTask BY HasOne, HasNone
<1> HIDE DEF q, last
<1>5. p \in Seq(TaskSet) /\ \A u : Has(p, u) <=> Has(rest, u) \/ Has(q, u) BY <1>2, HasJoined
<1>6. \A u : /\ Once(rest, u) /\ ~Has(q, u) => Once(p, u)
             /\ ~Has(rest, u) /\ Once(q, u) => Once(p, u)
  BY <1>2, HasJoined
<1> HIDE DEF p
<1>7. p \o last \in Seq(TaskSet) BY <1>3, <1>5
<1>8. \A u : Has(p \o last, u) <=> Has(p, u) \/ Has(last, u) BY <1>3, <1>5, HasJoined
<1>9. \A u : Once(p, u) /\ ~Has(last, u) => Once(p \o last, u) BY <1>3, <1>5, HasJoined
<1> QED BY <1>1, <1>4, <1>5, <1>6, <1>7, <1>8, <1>9 DEF q

-----------------------------------------------------------------------------
(* The tasks about one app after a step.                                   *)

\* A step that has nothing to do with r.
Apart(r) ==
    /\ conn'[r] = conn[r] /\ (r \in creating' => r \in creating)
    /\ \A u \in {CreatedTask(r), StopTask(r), CloseTimerTask(r)} :
          (Has(tasks', u) => Has(tasks, u)) /\ (Once(tasks, u) => Once(tasks', u))
    /\ phase = "drain" /\ tasks' # <<>> => phase' = "drain"

\* Such a step keeps what is said of the tasks about r.
LEMMA ApartTied ==
    ASSUME NEW r \in Remote, Tied(r), Apart(r)
    PROVE  Tied(r)'
<1>1. Has(tasks', StopTask(r)) => tasks' # <<>> BY HasNone
<1> QED BY <1>1 DEF Tied, Apart, Pending

\* A step that moves the chain of r to d, when the tasks in rest remain and those in q come.
LEMMA MovedTied ==
    ASSUME NEW r \in Remote, TypeOK, Tied(r), NEW d, Moving(r, conn[r], d), conn'[r] = Rest(d),
           NEW rest,
           \A u : Has(rest, u) => Has(tasks, u), \A u : Once(tasks, u) => Once(rest, u),
           \A u : Has(tasks', u) /\ u \in {CreatedTask(r), StopTask(r), CloseTimerTask(r)}
                      => Has(rest, u) \/ Has(d.posts, u),
           Once(rest, CreatedTask(r)) => Once(tasks', CreatedTask(r)),
           Once(rest, CloseTimerTask(r)) /\ ~Has(d.posts, CloseTimerTask(r))
               => Once(tasks', CloseTimerTask(r)),
           Once(d.posts, CloseTimerTask(r)) /\ ~Has(rest, CloseTimerTask(r))
               => Once(tasks', CloseTimerTask(r)),
           r \in creating' => r \in creating,
           Has(rest, CloseTimerTask(r)) => d.timer \in {"idle", "started"},
           Has(rest, CreatedTask(r)) \/ r \in creating => d.protocol = "none",
           Has(tasks', StopTask(r)) =>
               \/ Exempt(d) \/ d.timer \in {"idle", "started"}
               \/ d.timer = "closing" /\ phase' = "drain"
    PROVE  Tied(r)'
<1> DEFINE created == CreatedTask(r)
           close == CloseTimerTask(r)
           stop == StopTask(r)
<1>1. /\ Rest(d).timer = d.timer /\ Rest(d).timer_closing = d.timer_closing
      /\ Rest(d).protocol = d.protocol /\ (Exempt(Rest(d)) <=> Exempt(d))
  BY RestIs DEF Moving
<1>2. created \notin TasksAbout(r) BY TaskNamesDiffer
<1>3. ~Has(d.posts, created) BY <1>2 DEF Moving, Posting
<1>4. /\ Once(d.posts, close)
      /\ Has(d.posts, close) => ~conn[r].timer_closing /\ d.timer_closing /\ d.timer \in {"idle", "started"}
      /\ conn[r].timer_closing => d.timer_closing
  BY DEF Moving, Posting
<1>5. Once(rest, created) /\ Once(rest, close) BY DEF Tied
<1>6. Has(rest, close) => conn[r].timer_closing BY DEF Tied
<1>7. Once(tasks', created) BY <1>3, <1>5
<1>8. Once(tasks', close) BY <1>4, <1>5, <1>6
<1>9. Has(tasks', close) => d.timer \in {"idle", "started"} /\ d.timer_closing
  BY <1>4, <1>6
<1>10. Has(tasks', created) => Has(rest, created) BY <1>3
<1>11. ~(r \in creating' /\ Has(tasks', created)) BY <1>10 DEF Tied
<1>12. Pending(r)' => d.protocol = "none" BY <1>10 DEF Pending
<1> HIDE DEF created, close, stop
<1> QED BY <1>1, <1>7, <1>8, <1>9, <1>11, <1>12 DEF Tied, created, close, stop

-----------------------------------------------------------------------------
(* A step that moves one chain keeps the invariant.                        *)

\* The tasks in rest are tasks that were there.
Left(rest) ==
    /\ rest \in Seq(TaskSet)
    /\ \A u : (Has(rest, u) => Has(tasks, u)) /\ (Once(tasks, u) => Once(rest, u))

\* The tasks are now those in rest, those in posts, and perhaps a close_engine.
Queued(rest, posts) ==
    /\ tasks' \in Seq(TaskSet)
    /\ \A u : Has(tasks', u) => Has(rest, u) \/ Has(posts, u) \/ u = CloseTask
    /\ \A u : u # CloseTask /\ Once(rest, u) /\ ~Has(posts, u) => Once(tasks', u)
    /\ \A u : u # CloseTask /\ Once(posts, u) /\ ~Has(rest, u) => Once(tasks', u)

\* All tasks are left, or all but the first.
LEMMA LeftIs ==
    ASSUME TypeOK
    PROVE  Left(tasks) /\ (tasks # <<>> => Left(Tail(tasks)))
<1>1. tasks \in Seq(TaskSet) BY TasksTyped
<1>2. ASSUME tasks # <<>> PROVE Left(Tail(tasks))
  <2>1. Tail(tasks) \in Seq(TaskSet) BY <1>1, <1>2, Tailed
  <2>2. \A u : (Has(Tail(tasks), u) => Has(tasks, u)) /\ (Once(tasks, u) => Once(Tail(tasks), u))
    BY <1>1, <1>2, HasTail
  <2> QED BY <2>1, <2>2 DEF Left
<1> QED BY <1>1, <1>2 DEF Left

\* The chain towards r moves to d, and nothing else that the invariant of the chains and of
\* the tasks is about has changed.
Moved(r, d, rest) ==
    /\ Moving(r, conn[r], d)
    /\ conn' = [conn EXCEPT ![r] = Rest(d)]
    /\ Left(rest) /\ Queued(rest, d.posts)
    /\ creating' = creating
    /\ uncompleted' \in {uncompleted, FALSE}
    /\ d.protocol # "none" \/ (conn[r].protocol = "none" /\ uncompleted' = uncompleted)
    /\ conn[r].protocol = "none" /\ ~Pending(r) => d.protocol = "none"
    /\ Has(rest, CloseTimerTask(r)) => d.timer \in {"idle", "started"}
    /\ Has(rest, CreatedTask(r)) \/ r \in creating => d.protocol = "none"
    /\ Has(tasks', StopTask(r)) =>
          \/ Exempt(d) \/ d.timer \in {"idle", "started"}
          \/ d.timer = "closing" /\ phase' = "drain"
    /\ phase = "drain" /\ tasks' # <<>> => phase' = "drain"

\* One chain moves, and its invariant is kept; and so is what is said of the tasks.
LEMMA MovedConn ==
    ASSUME TypeOK, NEW r \in Remote, NEW d \in Chain, conn' = [conn EXCEPT ![r] = Rest(d)]
    PROVE  /\ conn' \in [Remote -> Conn] /\ conn'[r] = Rest(d)
           /\ \A s \in Remote : s # r => conn'[s] = conn[s]
<1>1. conn \in [Remote -> Conn] BY TasksTyped
<1>2. Rest(d) \in Conn BY RestIs
<1> QED BY <1>1, <1>2

LEMMA MovedChains ==
    ASSUME TypeOK, Chains, NEW r \in Remote, NEW d, Moving(r, conn[r], d),
           conn' = [conn EXCEPT ![r] = Rest(d)]
    PROVE  /\ Chains'
           /\ conn' \in [Remote -> Conn] /\ \A s \in Remote : conn'[s].times <= MaxRetries[s]
           /\ \A s \in Remote : HasAnswered(conn[s]) => HasAnswered(conn'[s])
<1>1. d \in Chain /\ Good(r, d) /\ (HasAnswered(conn[r]) => HasAnswered(d))
  BY DEF Moving, HasAnswered
<1>2. /\ conn' \in [Remote -> Conn] /\ conn'[r] = Rest(d)
      /\ \A s \in Remote : s # r => conn'[s] = conn[s]
  BY <1>1, MovedConn
<1>3. Good(r, Rest(d)) /\ Rest(d).result = d.result BY <1>1, RestIs
<1>4. \A s \in Remote : Good(s, conn'[s]) BY <1>2, <1>3 DEF Chains
<1>5. \A s \in Remote : conn'[s].times <= MaxRetries[s] BY <1>4 DEF Good, TimerIs
<1>6. \A s \in Remote : HasAnswered(conn[s]) => HasAnswered(conn'[s])
  BY <1>1, <1>2, <1>3 DEF HasAnswered
<1>7. Chains' BY <1>4 DEF Chains
<1> QED BY <1>2, <1>5, <1>6, <1>7

LEMMA MovedTies ==
    ASSUME TypeOK, Ties, NEW r \in Remote, NEW d, NEW rest, Moved(r, d, rest)
    PROVE  Ties'
<1>1. d \in Chain /\ Moving(r, conn[r], d) /\ \A u : Has(d.posts, u) => u \in TasksAbout(r)
  BY DEF Moved, Moving, Posting
<1>2. conn'[r] = Rest(d) /\ \A s \in Remote : s # r => conn'[s] = conn[s]
  BY <1>1, MovedConn DEF Moved
<1>3. ASSUME NEW s \in Remote, s # r PROVE Tied(s)'
  <2>1. \A u \in {CreatedTask(s), StopTask(s), CloseTimerTask(s)} :
            u \notin TasksAbout(r) /\ u # CloseTask
    BY <1>3, TaskNamesDiffer
  <2>2. \A u \in {CreatedTask(s), StopTask(s), CloseTimerTask(s)} :
            (Has(tasks', u) => Has(tasks, u)) /\ (Once(tasks, u) => Once(tasks', u))
    BY <1>1, <2>1 DEF Moved, Queued, Left
  <2>3. Apart(s) BY <1>2, <1>3, <2>2 DEF Apart, Moved
  <2> QED BY <2>3, ApartTied DEF Ties
<1>4. Tied(r)'
  <2>1. Tied(r) BY DEF Ties
  <2>2. \A u \in {CreatedTask(r), StopTask(r), CloseTimerTask(r)} : u # CloseTask
    BY TaskNamesDiffer
  <2>3. CreatedTask(r) \notin TasksAbout(r) BY TaskNamesDiffer
  <2>4. \A u : Has(tasks', u) /\ u \in {CreatedTask(r), StopTask(r), CloseTimerTask(r)}
                   => Has(rest, u) \/ Has(d.posts, u)
    BY <2>2 DEF Moved, Queued
  <2>5. Once(rest, CreatedTask(r)) => Once(tasks', CreatedTask(r))
    BY <1>1, <2>2, <2>3 DEF Moved, Queued
  <2>6. /\ Once(rest, CloseTimerTask(r)) /\ ~Has(d.posts, CloseTimerTask(r))
               => Once(tasks', CloseTimerTask(r))
        /\ Once(d.posts, CloseTimerTask(r)) /\ ~Has(rest, CloseTimerTask(r))
               => Once(tasks', CloseTimerTask(r))
    BY <2>2 DEF Moved, Queued
  <2>7. \A u : Has(rest, u) => Has(tasks, u) BY DEF Moved, Left
  <2>8. \A u : Once(tasks, u) => Once(rest, u) BY DEF Moved, Left
  <2>9. r \in creating' => r \in creating BY DEF Moved
  <2>10. /\ Has(rest, CloseTimerTask(r)) => d.timer \in {"idle", "started"}
         /\ Has(rest, CreatedTask(r)) \/ r \in creating => d.protocol = "none"
         /\ Has(tasks', StopTask(r)) =>
               \/ Exempt(d) \/ d.timer \in {"idle", "started"}
               \/ d.timer = "closing" /\ phase' = "drain"
    BY DEF Moved
  <2> QED BY <1>1, <1>2, <2>1, <2>4, <2>5, <2>6, <2>7, <2>8, <2>9, <2>10, MovedTied
<1> QED BY <1>3, <1>4 DEF Ties

LEMMA MovedStart ==
    ASSUME TypeOK, StartOnce, NoneForgotten, NEW r \in Remote, NEW d, NEW rest, Moved(r, d, rest)
    PROVE  StartOnce' /\ NoneForgotten'
<1>1. d \in Chain /\ \A u : Has(d.posts, u) => u \in TasksAbout(r)
  BY DEF Moved, Moving, Posting
<1>2. conn'[r] = Rest(d) /\ \A s \in Remote : s # r => conn'[s] = conn[s]
  BY <1>1, MovedConn DEF Moved
<1>3. conn'[r].protocol = d.protocol BY <1>1, <1>2, RestIs
<1>4. StartTask \notin TasksAbout(r) /\ StartTask # CloseTask BY TaskNamesDiffer
<1>5. \A s \in Remote : CreatedTask(s) \notin TasksAbout(r) /\ CreatedTask(s) # CloseTask
  BY TaskNamesDiffer
<1>6. Has(tasks', StartTask) => Has(tasks, StartTask)
  BY <1>1, <1>4 DEF Moved, Queued, Left
<1>7. Once(tasks', StartTask) BY <1>1, <1>4 DEF Moved, Queued, Left, StartOnce
<1>8. \A s \in Remote : Has(tasks', CreatedTask(s)) => Has(tasks, CreatedTask(s))
  BY <1>1, <1>5 DEF Moved, Queued, Left
<1>9. \A s \in Remote : Pending(s)' => Pending(s) BY <1>8 DEF Pending, Moved
<1>10. StartOnce' BY <1>2, <1>3, <1>6, <1>7, <1>9 DEF StartOnce, Moved
<1>11. NoneForgotten'
  <2> SUFFICES ASSUME NEW s \in Remote, Pending(s), ~uncompleted'
               PROVE  \E t \in Remote : conn'[t].protocol # "none"
    BY <1>9 DEF NoneForgotten
  <2>1. CASE d.protocol # "none" BY <1>3, <2>1
  <2>2. CASE conn[r].protocol = "none" /\ uncompleted' = uncompleted
    <3>1. PICK t \in Remote : conn[t].protocol # "none" BY <2>2 DEF NoneForgotten
    <3> QED BY <1>2, <2>2, <3>1
  <2> QED BY <2>1, <2>2 DEF Moved
<1> QED BY <1>10, <1>11

\* A step that moves one chain keeps the invariant.
LEMMA MovedKeeps ==
    ASSUME Inv, NEW r \in Remote, NEW d, NEW rest, Moved(r, d, rest),
           engine' \in {"running", "closed"}, is_closing' \in BOOLEAN,
           extension_context' \in {"none", "open", "closed"},
           close_requests' \in 0..MaxClose, phase' \in {"poll", "drain", "close"},
           \/ start' = start /\ waiting' = waiting
           \/ start' = "failed" /\ waiting' = {}
           \/ /\ start' \in {start, "enabled"} /\ waiting' = waiting \ {r} /\ HasAnswered(d)
              /\ start' = "enabled" /\ start # "enabled" => waiting \subseteq {r} /\ start = "connecting",
           engine' = "closed" => /\ ~uncompleted'
                                 /\ \A s \in Remote : conn'[s].remote \in {"none", "freed"}
    PROVE  Inv'
<1>1. TypeOK /\ Chains /\ Ties /\ StartOnce /\ AnswersAre /\ NoneForgotten BY DEF Inv
<1>2. Moving(r, conn[r], d) /\ conn' = [conn EXCEPT ![r] = Rest(d)] BY DEF Moved
<1>3. /\ Chains'
      /\ conn' \in [Remote -> Conn] /\ \A s \in Remote : conn'[s].times <= MaxRetries[s]
      /\ \A s \in Remote : HasAnswered(conn[s]) => HasAnswered(conn'[s])
  BY <1>1, <1>2, MovedChains
<1>4. Ties' BY <1>1, MovedTies
<1>5. StartOnce' /\ NoneForgotten' BY <1>1, MovedStart
<1>6. ClosedIs' BY DEF ClosedIs
<1>7. HasAnswered(d) => HasAnswered(conn'[r])
  <2>1. d \in Chain BY <1>2 DEF Moving
  <2>2. conn'[r] = Rest(d) BY <1>1, <1>2, <2>1, MovedConn
  <2> QED BY <2>1, <2>2, RestIs DEF HasAnswered
<1>8. AnswersAre'
  <2>1. (start = "connecting" => \A s \in Remote \ waiting : HasAnswered(conn'[s]))
        /\ (start = "enabled" => \A s \in Remote : HasAnswered(conn'[s]))
    BY <1>1, <1>3 DEF AnswersAre
  <2> QED BY <1>7, <2>1 DEF AnswersAre
<1>9. TypeOK'
  <2>1. tasks' \in Seq(TaskSet) BY DEF Moved, Queued
  <2>2. start' \in {"none", "connecting", "enabled", "failed"} /\ waiting' \subseteq Remote
        /\ creating' \subseteq Remote /\ uncompleted' \in BOOLEAN
    BY <1>1 DEF TypeOK, Moved
  <2> QED BY <1>3, <2>1, <2>2 DEF TypeOK, TaskSet
<1> QED BY <1>3, <1>4, <1>5, <1>6, <1>8, <1>9 DEF Inv

-----------------------------------------------------------------------------
(* Callbacks, tasks, and the steps that leave the chains alone.            *)

\* What Become does.
LEMMA BecomeIs ==
    ASSUME TypeOK, NEW r \in Remote, NEW d \in Chain, NEW rest \in Seq(TaskSet), Become(r, d, rest),
           engine = "running"
    PROVE  /\ conn' = [conn EXCEPT ![r] = Rest(d)]
           /\ Queued(rest, d.posts)
           /\ engine' \in {"running", "closed"}
           /\ engine' = "closed" => /\ is_closing /\ ~uncompleted
                                    /\ \A s \in Remote : conn'[s].remote \in {"none", "freed"}
<1>1. conn' = [conn EXCEPT ![r] = Rest(d)] BY DEF Become, Rest
<1>2. Queued(rest, d.posts) BY BecomeTasks DEF Queued
<1>3. engine' = IF Freed(r, d) /\ is_closing
                    /\ EngineCouldBeClose(conn', uncompleted, extension_context)
                THEN "closed" ELSE engine
  BY DEF Become
<1> QED BY <1>1, <1>2, <1>3 DEF EngineCouldBeClose

\* A chain that exists has a protocol, and no task is to create one.
LEMMA BornIs ==
    ASSUME Inv, NEW r \in Remote
    PROVE  /\ Good(r, conn[r])
           /\ conn[r].remote # "none" => conn[r].protocol # "none"
           /\ conn[r].protocol = "none" => conn[r].remote = "none"
           /\ conn[r].protocol # "none" => ~Pending(r)
<1>1. Good(r, conn[r]) BY DEF Inv, Chains
<1>2. Tied(r) BY DEF Inv, Ties
<1> QED BY <1>1, <1>2 DEF Good, ChainIs, Tied

\* What a callback may do to the command.
Answering(r, d) ==
    \/ start' = start /\ waiting' = waiting
    \/ start' = "failed" /\ waiting' = {}
    \/ /\ start' \in {start, "enabled"} /\ waiting' = waiting \ {r} /\ HasAnswered(d)
       /\ start' = "enabled" /\ start # "enabled" => waiting \subseteq {r} /\ start = "connecting"

\* A callback.
LEMMA CallsKeep ==
    ASSUME Inv, engine = "running", NEW r \in Remote, NEW d, Calls(r, conn[r], d),
           Become(r, d, tasks), conn[r].remote # "none", phase # "drain", phase' \in {"poll", "close"},
           Answering(r, d), extension_context' \in {"none", "open", "closed"},
           UNCHANGED <<is_closing, uncompleted, creating, close_requests>>
    PROVE  Inv'
<1>1. TypeOK /\ Tied(r) BY DEF Inv, Ties
<1>2. Moving(r, conn[r], d) /\ d \in Chain BY DEF Calls, Moving
<1>3. conn[r].protocol # "none" /\ ~Pending(r) BY BornIs
<1>4. d.protocol # "none" BY <1>2 DEF Moving, Good, ChainIs
<1>5. tasks \in Seq(TaskSet) /\ Left(tasks) BY <1>1, TasksTyped, LeftIs
<1>6. /\ conn' = [conn EXCEPT ![r] = Rest(d)]
      /\ Queued(tasks, d.posts)
      /\ engine' \in {"running", "closed"}
      /\ engine' = "closed" => /\ ~uncompleted'
                               /\ \A s \in Remote : conn'[s].remote \in {"none", "freed"}
  BY <1>1, <1>2, <1>5, BecomeIs
<1>7. Has(tasks, CloseTimerTask(r)) => d.timer \in {"idle", "started"}
  BY <1>1 DEF Tied, Calls
<1>8. Has(tasks', StopTask(r)) => Exempt(d) \/ d.timer \in {"idle", "started"}
  <2>1. StopTask(r) # CloseTask BY TaskNamesDiffer
  <2>2. CASE Has(tasks, StopTask(r)) BY <1>1, <1>2, <2>2 DEF Tied, Calls, Moving
  <2>3. CASE Has(d.posts, StopTask(r))
    <3>1. d.timer # "none" /\ (d.timer = "closing" => Exempt(d))
      BY <1>2, <2>3 DEF Calls, Moving, Posting
    <3> QED BY <1>2, <3>1 DEF Chain
  <2> QED BY <1>6, <2>1, <2>2, <2>3 DEF Queued
<1>9. Moved(r, d, tasks)
  BY <1>2, <1>3, <1>4, <1>5, <1>6, <1>7, <1>8 DEF Moved, Pending
<1>10. /\ is_closing' \in BOOLEAN /\ close_requests' \in 0..MaxClose
       /\ start' = start \/ start' # "enabled" \/ start = "connecting"
  BY <1>1 DEF TypeOK, Answering
<1>11. \/ start' = start /\ waiting' = waiting
       \/ start' = "failed" /\ waiting' = {}
       \/ /\ start' \in {start, "enabled"} /\ waiting' = waiting \ {r} /\ HasAnswered(d)
          /\ start' = "enabled" /\ start # "enabled" => waiting \subseteq {r} /\ start = "connecting"
  BY DEF Answering
<1> QED BY <1>6, <1>9, <1>10, <1>11, MovedKeeps

\* A task about one app.
LEMMA TaskKeeps ==
    ASSUME Inv, engine = "running", NEW r \in Remote, NEW d, Moving(r, conn[r], d),
           tasks # <<>>, phase = "drain", Become(r, d, Tail(tasks)), Drained,
           conn[r].remote # "none" \/ d.protocol = conn[r].protocol,
           conn[r].timer # "none" => d.timer # "none",
           Has(Tail(tasks), CloseTimerTask(r)) => d.timer \in {"idle", "started"},
           UNCHANGED <<is_closing, uncompleted, extension_context, start, waiting, creating,
                       close_requests>>
    PROVE  Inv'
<1>1. TypeOK /\ Tied(r) BY DEF Inv, Ties
<1>2. d \in Chain BY DEF Moving
<1>3. /\ conn[r].protocol = "none" => d.protocol = "none"
      /\ conn[r].protocol # "none" => d.protocol # "none"
  BY BornIs DEF Moving, Good, ChainIs
<1>4. Left(Tail(tasks)) /\ Tail(tasks) \in Seq(TaskSet) BY <1>1, LeftIs DEF Left
<1>5. /\ conn' = [conn EXCEPT ![r] = Rest(d)]
      /\ Queued(Tail(tasks), d.posts)
      /\ engine' \in {"running", "closed"}
      /\ engine' = "closed" => /\ ~uncompleted'
                               /\ \A s \in Remote : conn'[s].remote \in {"none", "freed"}
  BY <1>1, <1>2, <1>4, BecomeIs
<1>6. /\ phase' \in {"poll", "drain", "close"} /\ (tasks' # <<>> => phase' = "drain")
  BY DEF Drained
<1>7. Has(tasks', StopTask(r)) => phase' = "drain" BY <1>6, HasNone
<1>8. Has(tasks', StopTask(r)) => Exempt(d) \/ d.timer # "none"
  <2>1. StopTask(r) # CloseTask BY TaskNamesDiffer
  <2>2. CASE Has(Tail(tasks), StopTask(r)) BY <1>1, <1>4, <2>2 DEF Tied, Moving, Left
  <2>3. CASE Has(d.posts, StopTask(r)) BY <2>3 DEF Moving, Posting
  <2> QED BY <1>5, <2>1, <2>2, <2>3 DEF Queued
<1>9. d.timer \in {"none", "idle", "started", "closing"} BY <1>2 DEF Chain
<1>10. Has(Tail(tasks), CreatedTask(r)) \/ r \in creating => d.protocol = "none"
  BY <1>1, <1>3, <1>4 DEF Left, Tied, Pending
<1>11. Moved(r, d, Tail(tasks))
  BY <1>3, <1>4, <1>5, <1>6, <1>7, <1>8, <1>9, <1>10 DEF Moved
<1>12. is_closing' \in BOOLEAN /\ close_requests' \in 0..MaxClose
       /\ extension_context' \in {"none", "open", "closed"}
  BY <1>1 DEF TypeOK
<1> QED BY <1>5, <1>6, <1>11, <1>12, MovedKeeps

\* A step that leaves the chains alone.
LEMMA QuietKeeps ==
    ASSUME Inv, UNCHANGED <<conn, creating, uncompleted, start, waiting>>,
           tasks' \in Seq(TaskSet),
           \A u : u # CloseTask => /\ Has(tasks', u) => Has(tasks, u)
                                   /\ Once(tasks, u) => Once(tasks', u),
           phase' \in {"poll", "drain", "close"}, phase = "drain" /\ tasks' # <<>> => phase' = "drain",
           engine' \in {"running", "closed"}, is_closing' \in BOOLEAN,
           extension_context' \in {"none", "open", "closed"}, close_requests' \in 0..MaxClose,
           engine' = "closed" => engine = "closed" \/
               (~uncompleted /\ \A r \in Remote : conn[r].remote \in {"none", "freed"})
    PROVE  Inv'
<1>1. TypeOK' BY DEF Inv, TypeOK, TaskSet
<1>2. Chains' /\ AnswersAre' BY DEF Inv, Chains, AnswersAre
<1>3. Ties'
  <2> SUFFICES ASSUME NEW r \in Remote PROVE Tied(r)'
    BY DEF Ties
  <2>1. \A u \in {CreatedTask(r), StopTask(r), CloseTimerTask(r)} : u # CloseTask
    BY TaskNamesDiffer
  <2>2. Apart(r) BY <2>1 DEF Apart
  <2> QED BY <2>2, ApartTied DEF Inv, Ties
<1>4. \A r \in Remote : Pending(r)' => Pending(r)
  <2> SUFFICES ASSUME NEW r \in Remote, Pending(r)' PROVE Pending(r)
    OBVIOUS
  <2>1. CreatedTask(r) # CloseTask BY TaskNamesDiffer
  <2> QED BY <2>1 DEF Pending
<1>5. StartTask # CloseTask BY DEF StartTask, CloseTask
<1>6. StartOnce' BY <1>4, <1>5 DEF Inv, StartOnce
<1>7. NoneForgotten' BY <1>4 DEF Inv, NoneForgotten
<1>8. ClosedIs' BY DEF Inv, ClosedIs
<1> QED BY <1>1, <1>2, <1>3, <1>6, <1>7, <1>8 DEF Inv

-----------------------------------------------------------------------------
(* The callbacks.                                                          *)

\* A chain of which there is something is there.
LEMMA ThereIs ==
    ASSUME Inv, NEW r \in Remote
    PROVE  /\ (conn[r].attempt # "none" \/ conn[r].timer # "none" \/ conn[r].stream # "none"
                  \/ conn[r].result # "none") => conn[r].remote # "none"
           /\ conn[r] \in Chain /\ conn[r].posts = <<>> /\ Good(r, conn[r])
<1>1. conn[r] \in Chain /\ conn[r].posts = <<>> BY ConnIs DEF Inv
<1>2. Good(r, conn[r]) BY DEF Inv, Chains
<1> QED BY <1>1, <1>2 DEF Good, ChainIs, IsIdle

\* Callback, for a chain that is there; and the actions that are callbacks.
LEMMA CallbackKeeps ==
    ASSUME Inv, NEW r \in Remote, NEW d, Callback(r, d), Calls(r, conn[r], d),
           conn[r].remote # "none", phase # "drain", phase' \in {"poll", "close"}
    PROVE  Inv'
<1>1. engine = "running" /\ Become(r, d, tasks) BY DEF Callback
<1>2. Answering(r, d) BY DEF Callback, AndFail, Answering
<1>3. extension_context' \in {"none", "open", "closed"} BY DEF Callback, Inv, TypeOK
<1>4. UNCHANGED <<is_closing, uncompleted, creating, close_requests>> BY DEF Callback
<1> QED BY <1>1, <1>2, <1>3, <1>4, CallsKeep

LEMMA FirstAttemptEndsKeeps ==
    ASSUME Inv, NEW r \in Remote, NEW success \in BOOLEAN, FirstAttemptEnds(r, success)
    PROVE  Inv'
<1> DEFINE a == [conn[r] EXCEPT !.attempt = "none", !.uncompleted = FALSE]
           d == FirstEnds(r, a, success)
<1>1. Callback(r, d) BY DEF FirstAttemptEnds, FirstEnds
<1>2. conn[r].attempt = "first" /\ phase \in {"poll", "close"} /\ phase' = phase
  BY DEF FirstAttemptEnds, Socket
<1>3. conn[r].remote # "none" /\ conn[r] \in Chain /\ conn[r].posts = <<>> /\ Good(r, conn[r])
  BY <1>2, ThereIs
<1>4. Calls(r, conn[r], d) BY <1>2, <1>3, FirstAttemptCalls
<1> HIDE DEF d
<1> QED BY <1>1, <1>2, <1>3, <1>4, CallbackKeeps

LEMMA TimerTriggersKeeps ==
    ASSUME Inv, NEW r \in Remote, TimerTriggers(r)
    PROVE  Inv'
<1> DEFINE a == [conn[r] EXCEPT !.timer = "idle", !.times = @ + 1]
           d == [a EXCEPT !.attempt = "retry"]
           e == Answered(r, a, FALSE)
<1>1. Callback(r, d) \/ Callback(r, e) BY DEF TimerTriggers
<1>2. conn[r].timer = "started" /\ phase = "poll" /\ phase' = phase
  BY DEF TimerTriggers
<1>3. conn[r].remote # "none" /\ conn[r] \in Chain /\ conn[r].posts = <<>> /\ Good(r, conn[r])
  BY <1>2, ThereIs
<1>4. Calls(r, conn[r], d) /\ Calls(r, conn[r], e) BY <1>2, <1>3, TriggerCalls
<1> HIDE DEF d, e
<1> QED BY <1>1, <1>2, <1>3, <1>4, CallbackKeeps

LEMMA RetryEndsKeeps ==
    ASSUME Inv, NEW r \in Remote, NEW success \in BOOLEAN, RetryEnds(r, success)
    PROVE  Inv'
<1> DEFINE a == [conn[r] EXCEPT !.attempt = "none"]
           d == RetriesEnds(r, a, success)
<1>1. Callback(r, d) BY DEF RetryEnds, RetriesEnds
<1>2. /\ conn[r].attempt = "retry" /\ conn[r].protocol # "closed"
      /\ phase \in {"poll", "close"} /\ phase' = phase
  BY DEF RetryEnds, Socket
<1>3. conn[r].remote # "none" /\ conn[r] \in Chain /\ conn[r].posts = <<>> /\ Good(r, conn[r])
  BY <1>2, ThereIs
<1>4. Calls(r, conn[r], d) BY <1>2, <1>3, RetryCalls
<1> HIDE DEF d
<1> QED BY <1>1, <1>2, <1>3, <1>4, CallbackKeeps

LEMMA TimerClosedKeeps ==
    ASSUME Inv, NEW r \in Remote, TimerClosed(r)
    PROVE  Inv'
<1> DEFINE a == [conn[r] EXCEPT !.timer = "none"]
           d == TimerEnds(r, a)
<1>1. Callback(r, d) BY DEF TimerClosed, TimerEnds
<1>2. conn[r].timer = "closing" /\ phase \in {"poll", "close"} /\ phase' \in {"poll", "close"}
  BY DEF TimerClosed, HandleClosed
<1>3. conn[r].remote # "none" /\ conn[r] \in Chain /\ conn[r].posts = <<>> /\ Good(r, conn[r])
  BY <1>2, ThereIs
<1>4. Calls(r, conn[r], d) BY <1>2, <1>3, TimerClosedCalls
<1> HIDE DEF d
<1> QED BY <1>1, <1>2, <1>3, <1>4, CallbackKeeps

LEMMA StreamClosedKeeps ==
    ASSUME Inv, NEW r \in Remote, StreamClosed(r)
    PROVE  Inv'
<1> DEFINE d == ProtocolOnClose([conn[r] EXCEPT !.stream = "none"])
<1>1. Callback(r, d) BY DEF StreamClosed
<1>2. conn[r].stream = "closing" /\ phase \in {"poll", "close"} /\ phase' \in {"poll", "close"}
  BY DEF StreamClosed, HandleClosed
<1>3. conn[r].remote # "none" /\ conn[r] \in Chain /\ conn[r].posts = <<>> /\ Good(r, conn[r])
  BY <1>2, ThereIs
<1>4. Calls(r, conn[r], d) BY <1>2, <1>3, StreamClosedCalls
<1> HIDE DEF d
<1> QED BY <1>1, <1>2, <1>3, <1>4, CallbackKeeps

LEMMA PeerClosesKeeps ==
    ASSUME Inv, NEW r \in Remote, PeerCloses(r)
    PROVE  Inv'
<1> DEFINE d == [conn[r] EXCEPT !.posts = <<CloseProtocol(r)>>]
<1>1. Callback(r, d) BY DEF PeerCloses, CloseProtocol
<1>2. conn[r].stream = "open" /\ phase \in {"poll", "close"} /\ phase' = phase
  BY DEF PeerCloses, Reading, Socket
<1>3. conn[r].remote # "none" /\ conn[r] \in Chain /\ conn[r].posts = <<>> /\ Good(r, conn[r])
  BY <1>2, ThereIs
<1>4. Calls(r, conn[r], d) BY <1>3, PeerCalls
<1> HIDE DEF d
<1> QED BY <1>1, <1>2, <1>3, <1>4, CallbackKeeps

LEMMA SendFailsKeeps ==
    ASSUME Inv, NEW r \in Remote, SendFails(r)
    PROVE  Inv'
<1> DEFINE d == ProtocolClose(r, conn[r])
<1>1. Callback(r, d) BY DEF SendFails
<1>2. /\ conn[r].stream = "open" /\ conn[r].result = "sent"
      /\ phase \in {"poll", "close"} /\ phase' = phase
  BY DEF SendFails, Socket
<1>3. conn[r].remote # "none" /\ conn[r] \in Chain /\ conn[r].posts = <<>> /\ Good(r, conn[r])
  BY <1>2, ThereIs
<1>4. Closes(r, conn[r], d) BY <1>3, ProtocolCloses
<1> HIDE DEF d
<1>5. Calls(r, conn[r], d) BY <1>2, <1>3, <1>4, ClosesCalls
<1> QED BY <1>1, <1>2, <1>3, <1>5, CallbackKeeps

LEMMA ResultArrivesKeeps ==
    ASSUME Inv, NEW r \in Remote, ResultArrives(r)
    PROVE  Inv'
<1>1. /\ engine = "running" /\ conn[r].protocol = "init" /\ conn[r].result = "sent"
      /\ phase \in {"poll", "close"} /\ phase' = phase
      /\ UNCHANGED <<is_closing, uncompleted, creating, close_requests>>
  BY DEF ResultArrives, Reading, Socket
<1>2. conn[r].remote # "none" /\ conn[r] \in Chain /\ conn[r].posts = <<>> /\ Good(r, conn[r])
  BY <1>1, ThereIs
<1>3. CASE ResultOk(r)
  <2>1. PICK result \in {"ok", "duplicate"} :
            LET c == [conn[r] EXCEPT !.result = result] IN
            /\ Become(r, IF result = "ok" THEN [c EXCEPT !.weak = FALSE] ELSE ConnectionClose(r, c),
                      tasks)
            /\ IF Awaited(r) /\ AllAnswered(r)
               THEN start' = "enabled" /\ extension_context' = "open" /\ waiting' = {}
               ELSE waiting' = waiting \ {r} /\ UNCHANGED <<start, extension_context>>
    BY <1>3 DEF ResultOk
  <2> DEFINE e == [conn[r] EXCEPT !.result = result]
             d == IF result = "ok" THEN [e EXCEPT !.weak = FALSE] ELSE ConnectionClose(r, e)
  <2>2. Become(r, d, tasks) BY <2>1
  <2>3. Calls(r, conn[r], d) /\ d.result = result BY <1>1, <1>2, OkCalls, ZenonT(60)
  <2> HIDE DEF d
  <2>4. Answering(r, d) /\ extension_context' \in {"none", "open", "closed"}
    <3>1. extension_context \in {"none", "open", "closed"} BY DEF Inv, TypeOK
    <3>2. HasAnswered(d) BY <2>3 DEF HasAnswered
    <3>3. CASE Awaited(r) /\ AllAnswered(r)
      <4>1. start' = "enabled" /\ extension_context' = "open" /\ waiting' = {} BY <2>1, <3>3
      <4>2. waiting = {r} /\ start = "connecting" BY <3>3 DEF Awaited, AllAnswered
      <4> QED BY <3>2, <4>1, <4>2 DEF Answering
    <3>4. CASE ~(Awaited(r) /\ AllAnswered(r))
      BY <2>1, <3>1, <3>2, <3>4 DEF Answering
    <3> QED BY <3>3, <3>4
  <2> QED BY <1>1, <1>2, <2>2, <2>3, <2>4, CallsKeep
<1>4. CASE ResultError(r)
  <2> DEFINE e == [conn[r] EXCEPT !.result = "error"]
             d == [e EXCEPT !.posts = IF Awaited(r) THEN <<CloseTask>> ELSE <<>>]
  <2>1. Become(r, d, tasks) BY <1>4 DEF ResultError
  <2>2. Calls(r, conn[r], d)
    <3> DEFINE b == Awaited(r)
    <3>1. b \in BOOLEAN BY DEF Awaited
    <3>2. d = [e EXCEPT !.posts = IF b THEN <<CloseTask>> ELSE <<>>] OBVIOUS
    <3> HIDE DEF b, d
    <3> QED BY <1>1, <1>2, <3>1, <3>2, ErrorCalls
  <2> HIDE DEF d
  <2>3. Answering(r, d) /\ extension_context' \in {"none", "open", "closed"}
    BY <1>4 DEF ResultError, Answering, Inv, TypeOK
  <2> QED BY <1>1, <1>2, <2>1, <2>2, <2>3, CallsKeep
<1> QED BY <1>3, <1>4 DEF ResultArrives

-----------------------------------------------------------------------------
(* The tasks about one app.                                                *)

\* The task at the head is taken.
LEMMA HeadTaken ==
    ASSUME TypeOK, NEW t, Task(t)
    PROVE  /\ engine = "running" /\ phase = "drain" /\ tasks # <<>>
           /\ Has(tasks, t) /\ (Once(tasks, t) => ~Has(Tail(tasks), t))
           /\ Tail(tasks) \in Seq(TaskSet) /\ Left(Tail(tasks))
<1>1. engine = "running" /\ phase = "drain" /\ tasks # <<>> /\ Head(tasks) = t BY DEF Task
<1>2. tasks \in Seq(TaskSet) BY TasksTyped
<1>3. Has(tasks, Head(tasks)) /\ (Once(tasks, t) => ~Has(Tail(tasks), t))
  BY <1>1, <1>2, HasTail
<1>4. Left(Tail(tasks)) BY <1>1, LeftIs
<1> QED BY <1>1, <1>3, <1>4 DEF Left

\* The tasks of the timer, and of a protocol whose peer has closed the connection.
LEMMA TimerTaskKeeps ==
    ASSUME Inv, NEW r \in Remote, TimerTask(r)
    PROVE  Inv'
<1>1. conn[r] \in Chain /\ conn[r].posts = <<>> /\ Good(r, conn[r]) BY ThereIs
<1>2. TypeOK /\ Tied(r) BY DEF Inv, Ties
<1>3. /\ Drained
      /\ UNCHANGED <<is_closing, uncompleted, extension_context, start, waiting, creating,
                     close_requests>>
  BY DEF TimerTask
<1>4. conn[r].timer # "none" => conn[r].remote # "none" BY ThereIs
<1>5. CASE /\ Task(StopTask(r))
           /\ Become(r, [conn[r] EXCEPT !.timer = IF @ = "started" THEN "idle" ELSE @],
                     Tail(tasks))
  <2> DEFINE d == [conn[r] EXCEPT !.timer = IF @ = "started" THEN "idle" ELSE @]
  <2>1. /\ Moving(r, conn[r], d) /\ d.posts = <<>> /\ d.timer_closing = conn[r].timer_closing
        /\ d.timer = IF conn[r].timer = "started" THEN "idle" ELSE conn[r].timer
    BY <1>1, StopMoves
  <2>2. Become(r, d, Tail(tasks)) BY <1>5
  <2> HIDE DEF d
  <2>3. /\ engine = "running" /\ phase = "drain" /\ tasks # <<>> /\ Has(tasks, StopTask(r))
        /\ Left(Tail(tasks))
    BY <1>2, <1>5, HeadTaken
  <2>4. conn[r].remote # "none"
    <3>1. Exempt(conn[r]) \/ conn[r].timer # "none" BY <1>2, <2>3 DEF Tied
    <3> QED BY <3>1, ThereIs DEF Exempt
  <2>5. Has(Tail(tasks), CloseTimerTask(r)) => d.timer \in {"idle", "started"}
    BY <1>2, <2>1, <2>3 DEF Left, Tied
  <2> QED BY <1>3, <2>1, <2>2, <2>3, <2>4, <2>5, TaskKeeps
<1>6. CASE /\ Task(CloseTimerTask(r))
           /\ Become(r, [conn[r] EXCEPT !.timer = "closing"], Tail(tasks))
  <2> DEFINE d == [conn[r] EXCEPT !.timer = "closing"]
  <2>1. Become(r, d, Tail(tasks)) BY <1>6
  <2>2. d = [conn[r] EXCEPT !.timer = "closing"] OBVIOUS
  <2> HIDE DEF d
  <2>3. /\ engine = "running" /\ phase = "drain" /\ tasks # <<>> /\ Has(tasks, CloseTimerTask(r))
        /\ Once(tasks, CloseTimerTask(r)) => ~Has(Tail(tasks), CloseTimerTask(r))
    BY <1>2, <1>6, HeadTaken
  <2>4. conn[r].timer \in {"idle", "started"} /\ conn[r].timer_closing
        /\ ~Has(Tail(tasks), CloseTimerTask(r))
    BY <1>2, <2>3 DEF Tied
  <2>5. Moving(r, conn[r], d) /\ d.timer = "closing" BY <1>1, <2>2, <2>4, CloseMoves
  <2> QED BY <1>3, <1>4, <2>1, <2>3, <2>4, <2>5, TaskKeeps
<1> QED BY <1>5, <1>6 DEF TimerTask, StopTask, CloseTimerTask

LEMMA CloseProtocolTaskKeeps ==
    ASSUME Inv, NEW r \in Remote, CloseProtocolTask(r)
    PROVE  Inv'
<1> DEFINE d == ProtocolClose(r, conn[r])
<1>1. conn[r] \in Chain /\ conn[r].posts = <<>> /\ Good(r, conn[r]) BY ThereIs
<1>2. TypeOK /\ Tied(r) BY DEF Inv, Ties
<1>3. /\ Drained /\ Become(r, d, Tail(tasks))
      /\ UNCHANGED <<is_closing, uncompleted, extension_context, start, waiting, creating,
                     close_requests>>
  BY DEF CloseProtocolTask
<1>4. engine = "running" /\ phase = "drain" /\ tasks # <<>> /\ Left(Tail(tasks))
  BY <1>2, HeadTaken DEF CloseProtocolTask
<1>5. Closes(r, conn[r], d) BY <1>1, InitIsThere, ProtocolCloses
<1>6. d = conn[r] \/ conn[r].remote # "none"
  <2>1. CASE conn[r].protocol # "init" BY <2>1 DEF ProtocolClose
  <2>2. CASE conn[r].protocol = "init" BY <1>1, <2>2, InitIsThere
  <2> QED BY <2>1, <2>2
<1> HIDE DEF d
<1>7. Moving(r, conn[r], d) BY <1>1, <1>5, ClosesKeeps
<1>8. d.timer = conn[r].timer BY <1>5 DEF Closes, Same, Fields
<1>9. Has(Tail(tasks), CloseTimerTask(r)) => d.timer \in {"idle", "started"}
  BY <1>2, <1>4, <1>8 DEF Left, Tied
<1>10. conn[r].remote # "none" \/ d.protocol = conn[r].protocol BY <1>6
<1> QED BY <1>3, <1>4, <1>7, <1>8, <1>9, <1>10, TaskKeeps

\* A step that posts nothing leaves nothing to clear.
LEMMA RestSame ==
    ASSUME NEW d \in Chain, d.posts = <<>>
    PROVE  Rest(d) = d
BY DEF Rest, Chain

\* The creation of a protocol ends: what it leaves of the tasks.
LEMMA CreatedMoves ==
    ASSUME Inv, NEW r \in Remote, Task(CreatedTask(r)), NEW d, Moving(r, conn[r], d),
           d.protocol # "none", d.timer = "none",
           conn' = [conn EXCEPT ![r] = Rest(d)], Queued(Tail(tasks), d.posts), Drained,
           creating' = creating, uncompleted' = FALSE
    PROVE  Moved(r, d, Tail(tasks))
<1>1. TypeOK /\ Tied(r) BY DEF Inv, Ties
<1>2. /\ phase = "drain" /\ tasks # <<>>
      /\ Has(tasks, CreatedTask(r)) /\ (Once(tasks, CreatedTask(r)) => ~Has(Tail(tasks), CreatedTask(r)))
      /\ Left(Tail(tasks))
  BY <1>1, HeadTaken
<1>3. ~Has(Tail(tasks), CreatedTask(r)) /\ r \notin creating /\ Pending(r)
  BY <1>1, <1>2 DEF Tied, Pending
<1>4. conn[r].protocol = "none" BY <1>1, <1>3 DEF Tied
<1>5. conn[r] \in Chain /\ Good(r, conn[r]) BY ThereIs
<1>6. IsIdle(conn[r]) BY <1>4, <1>5, UnbornIs
<1>7. ~Has(tasks, CloseTimerTask(r)) /\ ~Has(tasks, StopTask(r))
  BY <1>1, <1>6 DEF Tied, IsIdle, Exempt
<1>8. ~Has(Tail(tasks), CloseTimerTask(r)) /\ ~Has(Tail(tasks), StopTask(r))
  BY <1>2, <1>7 DEF Left
<1>9. ~Has(tasks', StopTask(r))
  <2>1. StopTask(r) # CloseTask BY TaskNamesDiffer
  <2>2. ~Has(d.posts, StopTask(r)) BY DEF Moving, Posting
  <2> QED BY <1>8, <2>1, <2>2 DEF Queued
<1> QED BY <1>2, <1>3, <1>8, <1>9 DEF Moved, Drained

-----------------------------------------------------------------------------
(* The creation of a protocol ends; the command arrives; and what leaves   *)
(* the chains alone.                                                       *)

\* The engine learns of the protocol.
LEMMA ProtocolCreatedKeeps ==
    ASSUME Inv, NEW r \in Remote, ProtocolCreated(r)
    PROVE  Inv'
<1>1. /\ Drained
      /\ UNCHANGED <<is_closing, extension_context, creating, close_requests>>
  BY DEF ProtocolCreated
<1>2. Task(CreatedTask(r)) BY DEF ProtocolCreated, CreatedTask
<1>3. TypeOK /\ Tied(r) BY DEF Inv, Ties
<1>4. /\ engine = "running" /\ Has(tasks, CreatedTask(r))
      /\ Tail(tasks) \in Seq(TaskSet) /\ Left(Tail(tasks))
  BY <1>2, <1>3, HeadTaken
<1>5. conn[r].protocol = "none" BY <1>3, <1>4 DEF Tied, Pending
<1>6. conn[r] \in Chain /\ Good(r, conn[r]) BY ThereIs
<1>7. /\ is_closing' \in BOOLEAN /\ close_requests' \in 0..MaxClose
      /\ extension_context' \in {"none", "open", "closed"}
      /\ phase' \in {"poll", "drain", "close"}
  BY <1>1, <1>3 DEF TypeOK, Drained
<1>8. CASE Refused(r)
  <2> DEFINE d == [Nothing EXCEPT !.protocol = "closed"]
  <2>1. /\ conn' = [conn EXCEPT ![r] = d] /\ uncompleted' = FALSE
        /\ tasks' = Tail(tasks) \o ErrorPosts(r)
        /\ engine' = IF EngineCouldBeClose(conn', FALSE, extension_context)
                     THEN "closed" ELSE engine
        /\ \/ start' = start /\ waiting' = waiting
           \/ start' = "failed" /\ waiting' = {}
    BY <1>8 DEF Refused
  <2>2. Moving(r, conn[r], d) /\ d.protocol = "closed" /\ d.posts = <<>> /\ d.timer = "none"
    BY <1>5, <1>6, RefusedMoves
  <2> HIDE DEF d
  <2>3. Rest(d) = d BY <2>2, RestSame DEF Moving
  <2>4. Queued(Tail(tasks), d.posts)
    <3> DEFINE q == ErrorPosts(r)
               rest == Tail(tasks)
    <3>1. q \in Seq(TaskSet) /\ \A u : Has(q, u) => u = CloseTask BY ErrorPostsAre
    <3>2. rest \in Seq(TaskSet) BY <1>4
    <3>3. tasks' = rest \o q BY <2>1
    <3> HIDE DEF q, rest
    <3>4. \A u : /\ Has(rest \o q, u) <=> Has(rest, u) \/ Has(q, u)
                 /\ Once(rest, u) /\ ~Has(q, u) => Once(rest \o q, u)
      BY <3>1, <3>2, HasJoined
    <3>5. rest \o q \in Seq(TaskSet) BY <3>1, <3>2
    <3>6. \A u : u # CloseTask /\ ~Has(rest, u) => Once(tasks', u)
      BY <3>1, <3>3, <3>4 DEF Once, Has
    <3> QED BY <3>1, <3>3, <3>4, <3>5, <3>6 DEF Queued, rest
  <2>5. Moved(r, d, Tail(tasks))
    BY <1>1, <1>2, <2>1, <2>2, <2>3, <2>4, CreatedMoves
  <2>6. /\ engine' \in {"running", "closed"}
        /\ engine' = "closed" => ~uncompleted'
                                 /\ \A s \in Remote : conn'[s].remote \in {"none", "freed"}
    BY <1>4, <2>1 DEF EngineCouldBeClose
  <2> QED BY <1>7, <2>1, <2>5, <2>6, MovedKeeps
<1>9. CASE Connecting(r)
  <2>1. /\ ~is_closing /\ uncompleted' = FALSE
        /\ \E d \in {Connect(Begun), FinallyConnected(r, Begun, FALSE)} :
               Become(r, d, Tail(tasks)) /\ AndFail(r, d)
    BY <1>9 DEF Connecting, Begun
  <2>2. PICK d \in {Connect(Begun), FinallyConnected(r, Begun, FALSE)} :
               Become(r, d, Tail(tasks)) /\ AndFail(r, d)
    BY <2>1
  <2>3. Moving(r, conn[r], d) /\ d.protocol # "none" /\ d.timer = "none"
    BY <1>5, <1>6, ConnectingMoves
  <2>4. /\ conn' = [conn EXCEPT ![r] = Rest(d)]
        /\ Queued(Tail(tasks), d.posts)
        /\ engine' \in {"running", "closed"}
        /\ engine' = "closed" => is_closing
    BY <1>3, <1>4, <2>2, <2>3, BecomeIs DEF Moving
  <2>5. Moved(r, d, Tail(tasks))
    BY <1>1, <1>2, <2>1, <2>3, <2>4, CreatedMoves
  <2>6. \/ start' = start /\ waiting' = waiting
        \/ start' = "failed" /\ waiting' = {}
    BY <2>2 DEF AndFail
  <2> QED BY <1>7, <2>1, <2>4, <2>5, <2>6, MovedKeeps
<1> QED BY <1>8, <1>9 DEF ProtocolCreated

\* The command arrives, and the thread of the app creates a protocol.
LEMMA StartGraphKeeps ==
    ASSUME Inv, StartGraph
    PROVE  Inv'
<1>1. Task(StartTask) BY DEF StartGraph, StartTask
<1>2. TypeOK /\ StartOnce BY DEF Inv
<1>3. /\ engine = "running" /\ Has(tasks, StartTask) /\ ~Has(Tail(tasks), StartTask)
      /\ Tail(tasks) \in Seq(TaskSet) /\ Left(Tail(tasks))
  BY <1>1, <1>2, HeadTaken DEF StartOnce
<1>4. /\ start' = "connecting" /\ waiting' = Remote /\ creating' = Remote /\ uncompleted' = TRUE
      /\ tasks' = Tail(tasks) /\ Drained
      /\ UNCHANGED <<engine, is_closing, extension_context, conn, close_requests>>
  BY DEF StartGraph
<1>5. \A r \in Remote : conn[r].protocol = "none" /\ ~Pending(r) BY <1>2, <1>3 DEF StartOnce
<1>6. TypeOK' BY <1>2, <1>3, <1>4 DEF TypeOK, Drained, TaskSet
<1>7. Chains' BY <1>4 DEF Inv, Chains
<1>8. Ties'
  <2> SUFFICES ASSUME NEW r \in Remote PROVE Tied(r)'
    BY DEF Ties
  <2>1. Tied(r) BY DEF Inv, Ties
  <2>2. ~Has(tasks', CreatedTask(r)) BY <1>3, <1>4, <1>5 DEF Pending, Left
  <2>3. IsIdle(conn[r]) BY <1>5, ThereIs, UnbornIs
  <2>4. ~Has(tasks', StopTask(r)) /\ ~Has(tasks', CloseTimerTask(r))
    BY <1>3, <1>4, <2>1, <2>3 DEF Left, Tied, IsIdle, Exempt
  <2>5. Once(tasks', CreatedTask(r)) /\ Once(tasks', CloseTimerTask(r))
    BY <1>3, <1>4, <2>1 DEF Left, Tied
  <2> QED BY <1>4, <1>5, <2>2, <2>4, <2>5 DEF Tied
<1>9. StartOnce' BY <1>2, <1>3, <1>4 DEF StartOnce, Left
<1>10. AnswersAre' BY <1>4 DEF AnswersAre
<1>11. NoneForgotten' BY <1>4 DEF NoneForgotten
<1>12. ClosedIs' BY <1>3, <1>4 DEF ClosedIs
<1> QED BY <1>6, <1>7, <1>8, <1>9, <1>10, <1>11, <1>12 DEF Inv

LEMMA CreateProtocolKeeps ==
    ASSUME Inv, NEW r \in Remote, CreateProtocol(r)
    PROVE  Inv'
<1>1. /\ r \in creating /\ creating' = creating \ {r}
      /\ tasks' = Append(tasks, CreatedTask(r))
      /\ UNCHANGED <<engine, is_closing, uncompleted, extension_context, start, waiting, conn,
                     close_requests, phase>>
  BY DEF CreateProtocol, CreatedTask
<1>2. TypeOK BY DEF Inv
<1>3. tasks \in Seq(TaskSet) /\ CreatedTask(r) \in TaskSet BY <1>2, TasksTyped, SomeTasks
<1>4. /\ tasks' \in Seq(TaskSet)
      /\ \A u : /\ Has(tasks', u) <=> Has(tasks, u) \/ u = CreatedTask(r)
                /\ Once(tasks, u) /\ (u # CreatedTask(r) \/ ~Has(tasks, u)) => Once(tasks', u)
  BY <1>1, <1>3, HasAppended
<1>5. TypeOK' BY <1>1, <1>2, <1>4 DEF TypeOK, TaskSet
<1>6. Chains' /\ AnswersAre' BY <1>1 DEF Inv, Chains, AnswersAre
<1>7. \A s \in Remote : CreatedTask(s) # StopTask(r) /\ CreatedTask(s) # CloseTimerTask(r)
                        /\ CreatedTask(r) # StopTask(s) /\ CreatedTask(r) # CloseTimerTask(s)
                        /\ (CreatedTask(s) = CreatedTask(r) => s = r)
  BY DEF CreatedTask, StopTask, CloseTimerTask
<1>8. \A s \in Remote : Pending(s)' => Pending(s)
  BY <1>1, <1>4, <1>7 DEF Pending
<1>9. Ties'
  <2> SUFFICES ASSUME NEW s \in Remote PROVE Tied(s)'
    BY DEF Ties
  <2>1. Tied(s) BY DEF Inv, Ties
  <2>2. ~(s \in creating' /\ Has(tasks', CreatedTask(s))) BY <1>1, <1>4, <1>7, <2>1 DEF Tied
  <2>3. Once(tasks', CreatedTask(s)) BY <1>1, <1>4, <1>7, <2>1 DEF Tied
  <2>4. Once(tasks', CloseTimerTask(s)) BY <1>4, <1>7, <2>1 DEF Tied
  <2>5. /\ Has(tasks', CloseTimerTask(s)) => Has(tasks, CloseTimerTask(s))
        /\ Has(tasks', StopTask(s)) => Has(tasks, StopTask(s))
    BY <1>4, <1>7
  <2> QED BY <1>1, <1>8, <2>1, <2>2, <2>3, <2>4, <2>5 DEF Tied
<1>10. StartOnce'
  <2>1. StartTask # CreatedTask(r) BY TaskNamesDiffer
  <2> QED BY <1>1, <1>4, <1>8, <2>1 DEF Inv, StartOnce
<1>11. NoneForgotten' BY <1>1, <1>8 DEF Inv, NoneForgotten
<1>12. ClosedIs' BY <1>1 DEF Inv, ClosedIs
<1> QED BY <1>5, <1>6, <1>9, <1>10, <1>11, <1>12 DEF Inv

LEMMA CloseTaskIs == CloseTask \in TaskSet
BY SomeTasks DEF TaskSet

\* The steps that leave the chains alone.
LEMMA QuietSteps ==
    ASSUME Inv, StartDraining \/ CloseEngine \/ ContextCloses \/ UNCHANGED vars
    PROVE  Inv'
<1>1. TypeOK BY DEF Inv
<1>2. tasks \in Seq(TaskSet) BY <1>1, TasksTyped
<1>3. CASE StartDraining
  <2>1. /\ UNCHANGED <<conn, creating, uncompleted, start, waiting, tasks, engine, is_closing,
                       extension_context, close_requests>>
        /\ phase' = "drain"
    BY <1>3 DEF StartDraining
  <2> QED BY <1>1, <1>2, <2>1, QuietKeeps DEF TypeOK
<1>4. CASE CloseEngine
  <2>1. /\ UNCHANGED <<conn, creating, uncompleted, start, waiting, engine, is_closing,
                       extension_context, phase>>
        /\ close_requests < MaxClose /\ close_requests' = close_requests + 1
        /\ tasks' = Append(tasks, CloseTask) /\ engine = "running"
    BY <1>4 DEF CloseEngine
  <2>2. /\ tasks' \in Seq(TaskSet)
        /\ \A u : /\ Has(tasks', u) <=> Has(tasks, u) \/ u = CloseTask
                  /\ Once(tasks, u) /\ (u # CloseTask \/ ~Has(tasks, u)) => Once(tasks', u)
    <3> DEFINE t == CloseTask
    <3>1. t \in TaskSet BY CloseTaskIs
    <3>2. tasks' = Append(tasks, t) BY <2>1
    <3> HIDE DEF t
    <3>3. /\ tasks' \in Seq(TaskSet)
          /\ \A u : /\ Has(tasks', u) <=> Has(tasks, u) \/ u = t
                    /\ Once(tasks, u) /\ (u # t \/ ~Has(tasks, u)) => Once(tasks', u)
      BY <1>2, <3>1, <3>2, HasAppended
    <3> QED BY <3>3 DEF t
  <2>3. close_requests' \in 0..MaxClose
    BY <1>1, <2>1, RemoteConnectAssumption DEF TypeOK
  <2>4. /\ engine' \in {"running", "closed"} /\ is_closing' \in BOOLEAN
        /\ extension_context' \in {"none", "open", "closed"}
        /\ phase' \in {"poll", "drain", "close"}
    BY <1>1, <2>1 DEF TypeOK
  <2> QED BY <2>1, <2>2, <2>3, <2>4, QuietKeeps
<1>5. CASE ContextCloses
  <2>1. /\ UNCHANGED <<conn, creating, uncompleted, start, waiting, is_closing, close_requests,
                       tasks, phase>>
        /\ extension_context' = "closed"
        /\ engine = "running"
        /\ engine' = IF EngineCouldBeClose(conn, uncompleted, "closed") THEN "closed" ELSE engine
    BY <1>5 DEF ContextCloses
  <2>2. /\ engine' \in {"running", "closed"}
        /\ engine' = "closed" => ~uncompleted /\ \A r \in Remote : conn[r].remote \in {"none", "freed"}
    BY <2>1 DEF EngineCouldBeClose
  <2>3. /\ is_closing' \in BOOLEAN /\ close_requests' \in 0..MaxClose
        /\ phase' \in {"poll", "drain", "close"}
    BY <1>1, <2>1 DEF TypeOK
  <2> QED BY <1>2, <2>1, <2>2, <2>3, QuietKeeps
<1>6. CASE UNCHANGED vars
  <2>1. UNCHANGED <<conn, creating, uncompleted, start, waiting, tasks, engine, is_closing,
                    extension_context, close_requests, phase>>
    BY <1>6 DEF vars
  <2> QED BY <1>1, <1>2, <2>1, QuietKeeps DEF TypeOK
<1> QED BY <1>3, <1>4, <1>5, <1>6

-----------------------------------------------------------------------------
(* The engine closes every chain.                                          *)

\* There are finitely many tasks.
LEMMA TasksAreFinite == IsFiniteSet(TaskSet)
<1>1. IsFiniteSet(Remote) BY RemoteConnectAssumption
<1>2. IsFiniteSet(TaskNames)
  <2>1. IsFiniteSet({"stop_timer"}) BY FS_Singleton
  <2>2. IsFiniteSet({"stop_timer"} \cup {"close_timer"}) BY <2>1, FS_AddElement
  <2>3. IsFiniteSet(({"stop_timer"} \cup {"close_timer"}) \cup {"close_protocol"})
    BY <2>2, FS_AddElement
  <2>4. IsFiniteSet((({"stop_timer"} \cup {"close_timer"}) \cup {"close_protocol"})
                        \cup {"protocol_created"})
    BY <2>3, FS_AddElement
  <2>5. TaskNames = (({"stop_timer"} \cup {"close_timer"}) \cup {"close_protocol"})
                        \cup {"protocol_created"}
    BY DEF TaskNames
  <2> QED BY <2>4, <2>5
<1>3. IsFiniteSet(TaskNames \X Remote) BY <1>1, <1>2, FS_Product
<1>4. IsFiniteSet((TaskNames \X Remote) \cup {CloseTask}) BY <1>3, FS_AddElement
<1>5. IsFiniteSet(((TaskNames \X Remote) \cup {CloseTask}) \cup {<<"start_graph">>})
  BY <1>4, FS_AddElement
<1>6. TaskSet = ((TaskNames \X Remote) \cup {CloseTask}) \cup {<<"start_graph">>}
  BY DEF TaskSet
<1> QED BY <1>5, <1>6

\* A sequence of the elements of a set has each of them once.
LEMMA SequenceOfSet ==
    ASSUME NEW S \in SUBSET TaskSet, NEW posts \in SetToSeqs(S)
    PROVE  /\ posts \in Seq(TaskSet)
           /\ \A u : (Has(posts, u) => u \in S) /\ Once(posts, u)
<1>1. Cardinality(S) \in Nat
  BY TasksAreFinite, FS_Subset, FS_CardinalityType
<1> DEFINE n == Cardinality(S)
<1>2. posts \in [1..n -> S] /\ \A i, j \in 1..n : i # j => posts[i] # posts[j]
  BY DEF SetToSeqs
<1>3. n \in Nat BY <1>1
<1> HIDE DEF n
<1>4. posts \in Seq(TaskSet)
  <2>1. posts \in [1..n -> TaskSet] BY <1>2
  <2> QED BY <1>3, <2>1, SeqDef
<1>5. DOMAIN posts = 1..n BY <1>2
<1> QED BY <1>2, <1>4, <1>5 DEF Has, Once

\* Closing one of the chains.
LEMMA ToldIs ==
    ASSUME Inv, NEW r \in Remote
    PROVE  /\ Moving(r, conn[r], RemoteClose(r, conn[r])) /\ RemoteClose(r, conn[r]) \in Chain
           /\ RemoteClose(r, conn[r]).timer = conn[r].timer
           /\ conn[r].protocol = "none" => RemoteClose(r, conn[r]).protocol = "none"
           /\ conn[r].protocol # "none" => RemoteClose(r, conn[r]).protocol # "none"
<1> DEFINE d == RemoteClose(r, conn[r])
<1>1. conn[r] \in Chain /\ conn[r].posts = <<>> /\ Good(r, conn[r]) BY ThereIs
<1>2. Closes(r, conn[r], d) BY <1>1, InitIsThere, RemoteCloses
<1>3. conn[r].remote = "none" => d = conn[r] BY DEF RemoteClose
<1>4. conn[r].protocol = "none" => conn[r].remote = "none" BY BornIs
<1> HIDE DEF d
<1>5. Moving(r, conn[r], d) BY <1>1, <1>2, ClosesKeeps
<1>6. d.timer = conn[r].timer BY <1>2 DEF Closes, Same, Fields
<1>7. conn[r].protocol # "none" => d.protocol # "none"
  <2>1. CASE conn[r].remote = "none" BY <1>3, <2>1
  <2>2. CASE conn[r].remote # "none" BY <1>5, <2>2 DEF Moving, Good, ChainIs
  <2> QED BY <2>1, <2>2
<1> QED BY <1>2, <1>3, <1>4, <1>5, <1>6, <1>7 DEF d, Closes

\* ten_engine_close_sync moves all chains at once: each posts tasks about its own app only.
LEMMA CloseRemotesKeeps ==
    ASSUME Inv, CloseRemotes, Task(CloseTask), Drained,
           UNCHANGED <<uncompleted, extension_context, start, waiting, creating, close_requests>>
    PROVE  Inv'
<1> DEFINE told == [r \in Remote |-> RemoteClose(r, conn[r])]
           rest == Tail(tasks)
           S == UNION {Range(told[r].posts) : r \in Remote}
<1>1. /\ is_closing' = TRUE
      /\ conn' = [r \in Remote |-> [told[r] EXCEPT !.posts = <<>>]]
      /\ \E posts \in SetToSeqs(S) : tasks' = rest \o posts
      /\ engine' = IF EngineCouldBeClose(conn', uncompleted, extension_context)
                   THEN "closed" ELSE engine
  BY DEF CloseRemotes
<1>2. PICK posts \in SetToSeqs(S) : tasks' = rest \o posts BY <1>1
<1>3. TypeOK BY DEF Inv
<1>4. engine = "running" /\ phase = "drain" /\ tasks # <<>> /\ rest \in Seq(TaskSet) /\ Left(rest)
  BY <1>3, HeadTaken
<1>5. \A r \in Remote : conn'[r] = Rest(told[r]) BY <1>1 DEF Rest
<1>6. \A r \in Remote : /\ Moving(r, conn[r], told[r]) /\ told[r] \in Chain
                        /\ told[r].timer = conn[r].timer
                        /\ conn[r].protocol = "none" <=> told[r].protocol = "none"
  BY ToldIs
<1>7. DOMAIN conn' = Remote /\ conn' = [r \in Remote |-> conn'[r]] BY <1>1
<1>8. \A u \in S : \E r \in Remote : Has(told[r].posts, u)
  BY DEF Range, Has
<1> HIDE DEF told, rest
<1>9. \A u \in S : \E r \in Remote : u \in TasksAbout(r) /\ Has(told[r].posts, u)
  BY <1>6, <1>8 DEF Moving, Posting
<1>10. S \subseteq TaskSet
  <2>1. \A r \in Remote : TasksAbout(r) \subseteq TaskSet BY SomeTasks DEF TasksAbout
  <2> QED BY <1>9, <2>1
<1> HIDE DEF S
<1>11. posts \in Seq(TaskSet) /\ \A u : (Has(posts, u) => u \in S) /\ Once(posts, u)
  BY <1>2, <1>10, SequenceOfSet
<1>12. /\ tasks' \in Seq(TaskSet)
       /\ \A u : /\ Has(tasks', u) <=> Has(rest, u) \/ Has(posts, u)
                 /\ Once(rest, u) /\ ~Has(posts, u) => Once(tasks', u)
                 /\ ~Has(rest, u) /\ Once(posts, u) => Once(tasks', u)
  BY <1>2, <1>4, <1>11, HasJoined
<1>13. \A r \in Remote : /\ Good(r, conn'[r]) /\ conn'[r] \in Conn
                         /\ conn'[r].protocol = told[r].protocol
                         /\ HasAnswered(conn[r]) => HasAnswered(conn'[r])
  <2> SUFFICES ASSUME NEW r \in Remote
               PROVE  /\ Good(r, conn'[r]) /\ conn'[r] \in Conn
                      /\ conn'[r].protocol = told[r].protocol
                      /\ HasAnswered(conn[r]) => HasAnswered(conn'[r])
    OBVIOUS
  <2>1. /\ Rest(told[r]) \in Conn /\ Rest(told[r]).result = told[r].result
        /\ Rest(told[r]).protocol = told[r].protocol
        /\ Good(r, told[r]) => Good(r, Rest(told[r]))
    BY <1>6, RestIs
  <2> QED BY <1>5, <1>6, <2>1 DEF Moving, HasAnswered
<1>14. phase' \in {"poll", "drain", "close"} /\ (tasks' # <<>> => phase' = "drain")
  BY DEF Drained
<1>15. \A r \in Remote : \A s \in Remote :
           CreatedTask(r) \notin TasksAbout(s) /\ StartTask \notin TasksAbout(s)
  BY TaskNamesDiffer
<1>16. ~Has(posts, StartTask) /\ \A r \in Remote : ~Has(posts, CreatedTask(r))
  BY <1>9, <1>11, <1>15
<1>17. ASSUME NEW r \in Remote PROVE Tied(r)'
  <2>1. Tied(r) /\ Moving(r, conn[r], told[r]) /\ conn'[r] = Rest(told[r])
    BY <1>5, <1>6 DEF Inv, Ties
  <2>2. \A u \in {StopTask(r), CloseTimerTask(r)} : Has(posts, u) => Has(told[r].posts, u)
    <3>1. \A s \in Remote : s # r => StopTask(r) \notin TasksAbout(s)
                                     /\ CloseTimerTask(r) \notin TasksAbout(s)
      BY TaskNamesDiffer
    <3> QED BY <1>9, <1>11, <3>1
  <2>3. \A u : Has(rest, u) => Has(tasks, u) BY <1>4 DEF Left
  <2>4. \A u : Once(tasks, u) => Once(rest, u) BY <1>4 DEF Left
  <2>5. \A u : Has(tasks', u) /\ u \in {CreatedTask(r), StopTask(r), CloseTimerTask(r)}
                   => Has(rest, u) \/ Has(told[r].posts, u)
    BY <1>12, <1>16, <2>2
  <2>6. Once(rest, CreatedTask(r)) => Once(tasks', CreatedTask(r))
    BY <1>12, <1>16
  <2>7. /\ Once(rest, CloseTimerTask(r)) /\ ~Has(told[r].posts, CloseTimerTask(r))
               => Once(tasks', CloseTimerTask(r))
        /\ Once(told[r].posts, CloseTimerTask(r)) /\ ~Has(rest, CloseTimerTask(r))
               => Once(tasks', CloseTimerTask(r))
    BY <1>11, <1>12, <2>2
  <2>8. Has(rest, CloseTimerTask(r)) => told[r].timer \in {"idle", "started"}
    BY <1>6, <2>1, <2>3 DEF Tied
  <2>9. Has(rest, CreatedTask(r)) \/ r \in creating => told[r].protocol = "none"
    BY <1>6, <2>1, <2>3 DEF Tied, Pending
  <2>10. Has(tasks', StopTask(r)) =>
             \/ Exempt(told[r]) \/ told[r].timer \in {"idle", "started"}
             \/ told[r].timer = "closing" /\ phase' = "drain"
    <3>1. Has(tasks', StopTask(r)) => phase' = "drain" BY <1>14, HasNone
    <3>2. Has(rest, StopTask(r)) => Exempt(told[r]) \/ told[r].timer # "none"
      BY <1>6, <2>1, <2>3 DEF Tied, Moving
    <3>3. Has(told[r].posts, StopTask(r)) => told[r].timer # "none"
      BY <2>1 DEF Moving, Posting
    <3>4. told[r].timer \in {"none", "idle", "started", "closing"} BY <1>6 DEF Chain
    <3> QED BY <2>5, <3>1, <3>2, <3>3, <3>4
  <2>11. r \in creating' => r \in creating OBVIOUS
  <2> QED BY <1>3, <2>1, <2>3, <2>4, <2>5, <2>6, <2>7, <2>8, <2>9, <2>10, <2>11, MovedTied
<1>18. \A r \in Remote : Pending(r)' => Pending(r)
  BY <1>4, <1>12, <1>16 DEF Pending, Left
<1>19. TypeOK'
  <2>1. conn' \in [Remote -> Conn] BY <1>7, <1>13
  <2>2. \A r \in Remote : conn'[r].times <= MaxRetries[r] BY <1>13 DEF Good, TimerIs
  <2>3. engine' \in {"running", "closed"} BY <1>1, <1>4
  <2> QED BY <1>1, <1>3, <1>12, <1>14, <2>1, <2>2, <2>3 DEF TypeOK, TaskSet
<1>20. Chains' BY <1>13 DEF Chains
<1>21. Ties' BY <1>17 DEF Ties
<1>22. StartOnce'
  <2>1. Has(tasks', StartTask) => Has(tasks, StartTask) BY <1>4, <1>12, <1>16 DEF Left
  <2>2. Once(tasks', StartTask) BY <1>4, <1>12, <1>16 DEF Left, Inv, StartOnce
  <2> QED BY <1>6, <1>13, <1>18, <2>1, <2>2 DEF Inv, StartOnce
<1>23. AnswersAre' BY <1>13 DEF Inv, AnswersAre
<1>24. NoneForgotten' BY <1>6, <1>13, <1>18 DEF Inv, NoneForgotten
<1>25. ClosedIs' BY <1>1, <1>4 DEF ClosedIs, EngineCouldBeClose
<1> QED BY <1>19, <1>20, <1>21, <1>22, <1>23, <1>24, <1>25 DEF Inv

LEMMA CloseEngineTaskKeeps ==
    ASSUME Inv, CloseEngineTask
    PROVE  Inv'
<1>1. /\ Task(CloseTask) /\ Drained
      /\ UNCHANGED <<uncompleted, extension_context, start, waiting, creating, close_requests>>
  BY DEF CloseEngineTask
<1>2. CASE CloseRemotes BY <1>1, <1>2, CloseRemotesKeeps
<1>3. CASE is_closing /\ tasks' = Tail(tasks) /\ UNCHANGED <<engine, is_closing, conn>>
  <2>1. TypeOK BY DEF Inv
  <2>2. Left(Tail(tasks)) BY <1>1, <2>1, HeadTaken
  <2>3. /\ tasks' \in Seq(TaskSet)
        /\ \A u : (Has(tasks', u) => Has(tasks, u)) /\ (Once(tasks, u) => Once(tasks', u))
    BY <1>3, <2>2 DEF Left
  <2>4. phase' \in {"poll", "drain", "close"} /\ (tasks' # <<>> => phase' = "drain")
    BY <1>1 DEF Drained
  <2>5. /\ engine' \in {"running", "closed"} /\ is_closing' \in BOOLEAN
        /\ extension_context' \in {"none", "open", "closed"} /\ close_requests' \in 0..MaxClose
    BY <1>1, <1>3, <2>1 DEF TypeOK
  <2> QED BY <1>1, <1>3, <2>3, <2>4, <2>5, QuietKeeps
<1> QED BY <1>2, <1>3 DEF CloseEngineTask

-----------------------------------------------------------------------------
(* The invariant holds, and the properties follow from it.                 *)

\* The invariant holds at the start, and every step keeps it.
LEMMA InitInv == Init => Inv
<1> SUFFICES ASSUME Init PROVE Inv
  OBVIOUS
<1> DEFINE n == Nothing
           q == <<StartTask>>
<1>1. n \in Chain /\ IsIdle(n) /\ n.posts = <<>> /\ n.times = 0 /\ n.remote = "none" BY NothingIs
<1>2. n.protocol = "none" BY DEF Nothing
<1>3. \A r \in Remote : conn[r] = n BY DEF Init
<1>4. conn = [r \in Remote |-> n] BY DEF Init
<1>5. tasks = q BY DEF Init, StartTask
<1>6. \A u : (Has(q, u) <=> u = StartTask) /\ Once(q, u) BY HasOne
<1>7. q \in Seq(TaskSet)
  <2> DEFINE t == StartTask
  <2>1. t \in TaskSet BY DEF TaskSet, StartTask
  <2> HIDE DEF t
  <2>2. <<t>> \in Seq(TaskSet) BY <2>1
  <2> QED BY <2>2 DEF t
<1> HIDE DEF n, q
<1>8. \A r \in Remote : CreatedTask(r) # StartTask /\ StopTask(r) # StartTask
                        /\ CloseTimerTask(r) # StartTask
  <2> SUFFICES ASSUME NEW r \in Remote
               PROVE  CreatedTask(r) # StartTask /\ StopTask(r) # StartTask
                      /\ CloseTimerTask(r) # StartTask
    OBVIOUS
  <2>1. StartTask \notin TasksAbout(r) /\ StartTask # CreatedTask(r) BY TaskNamesDiffer
  <2> QED BY <2>1 DEF TasksAbout
<1>9. n \in Conn
  <2>1. [n EXCEPT !.posts = <<>>] = n BY <1>1 DEF Chain
  <2> QED BY <1>1, <2>1, RestIs DEF Rest, Chain, Conn
<1>10. \A r \in Remote : MaxRetries[r] \in Nat BY RemoteConnectAssumption
<1>11. TypeOK
  <2>1. conn \in [Remote -> Conn] BY <1>4, <1>9
  <2>2. \A r \in Remote : conn[r].times <= MaxRetries[r] BY <1>1, <1>3, <1>10
  <2>3. close_requests \in 0..MaxClose BY RemoteConnectAssumption DEF Init
  <2>4. tasks \in Seq(TaskSet) BY <1>5, <1>7
  <2> QED BY <2>1, <2>2, <2>3, <2>4 DEF Init, TypeOK, TaskSet
<1>12. Chains
  <2>1. \A r \in Remote : Good(r, n)
    BY <1>1, <1>2, <1>10
       DEF Good, ChainIs, IsIdle, StreamIs, ContextIs, AttemptIs, TimerIs
  <2> QED BY <1>3, <2>1 DEF Chains
<1>13. \A r \in Remote : ~Pending(r) BY <1>5, <1>6, <1>8 DEF Pending, Init
<1>14. Ties BY <1>2, <1>3, <1>5, <1>6, <1>8, <1>13 DEF Ties, Tied, Pending
<1>15. StartOnce BY <1>2, <1>3, <1>5, <1>6, <1>13 DEF StartOnce
<1>16. AnswersAre /\ NoneForgotten /\ ClosedIs BY <1>13 DEF Init, AnswersAre, NoneForgotten, ClosedIs
<1> QED BY <1>11, <1>12, <1>14, <1>15, <1>16 DEF Inv

LEMMA StepKeepsInv == Inv /\ [Next]_vars => Inv'
<1> SUFFICES ASSUME Inv, [Next]_vars PROVE Inv'
  OBVIOUS
<1>1. CASE Timers BY <1>1, TimerTriggersKeeps DEF Timers
<1>2. CASE Handles BY <1>2, TimerClosedKeeps, StreamClosedKeeps DEF Handles
<1>3. CASE Attempts BY <1>3, FirstAttemptEndsKeeps, RetryEndsKeeps DEF Attempts
<1>4. CASE Tasks
  BY <1>4, QuietSteps, StartGraphKeeps, CloseEngineTaskKeeps, ProtocolCreatedKeeps, TimerTaskKeeps,
     CloseProtocolTaskKeeps
     DEF Tasks
<1>5. CASE Peers BY <1>5, PeerClosesKeeps, SendFailsKeeps, ResultArrivesKeeps DEF Peers
<1>6. CASE App BY <1>6, QuietSteps, CreateProtocolKeeps DEF App
<1>7. CASE ContextCloses \/ UNCHANGED vars BY <1>7, QuietSteps
<1> QED BY <1>1, <1>2, <1>3, <1>4, <1>5, <1>6, <1>7 DEF Next

\* The parts of the invariant hold together, for all apps, numbers of retries and orders of the
\* callbacks and tasks.
THEOREM ConnectInvariant == Spec => []Inv
BY InitInv, StepKeepsInv, PTL DEF Spec

\* A timer triggers at most max_retries times, and the tasks are those that the handlers know.
THEOREM TypeCorrect == Spec => []TypeOK
<1>1. Inv => TypeOK BY DEF Inv
<1> QED BY <1>1, ConnectInvariant, PTL

\* An engine closes when it has no stream and no timer left, and waits for no protocol, but when
\* the creation of another one has made it forget (ten_engine_on_remote_closed).
THEOREM ClosesLast == Spec => []EngineClosesLast
<1>1. ASSUME Inv PROVE EngineClosesLast
  <2> SUFFICES ASSUME engine = "closed", NEW r \in Remote
               PROVE  /\ conn[r].protocol \in {"none", "closed"}
                      /\ conn[r].stream = "none" /\ conn[r].timer = "none"
                      /\ r \in creating \/ Posted(<<"protocol_created", r>>)
                             => \E s \in Remote \ {r} : conn[s].protocol # "none"
    BY DEF EngineClosesLast
  <2>1. ~uncompleted /\ conn[r].remote \in {"none", "freed"} BY <1>1 DEF Inv, ClosedIs
  <2>2. Good(r, conn[r]) /\ Tied(r) BY <1>1 DEF Inv, Chains, Ties
  <2>3. conn[r].protocol \in {"none", "closed"} BY <2>1, <2>2 DEF Good, ChainIs
  <2>4. conn[r].stream = "none" /\ conn[r].timer = "none"
    BY <2>1, <2>2 DEF Good, ChainIs, IsIdle, CouldBeClose
  <2>5. ASSUME Pending(r) PROVE \E s \in Remote \ {r} : conn[s].protocol # "none"
    <3>1. \E s \in Remote : conn[s].protocol # "none" BY <1>1, <2>1, <2>5 DEF Inv, NoneForgotten
    <3>2. conn[r].protocol = "none" BY <2>2, <2>5 DEF Tied
    <3> QED BY <3>1, <3>2
  <2> QED BY <2>3, <2>4, <2>5 DEF Pending, Posted, Has, CreatedTask
<1> QED BY <1>1, ConnectInvariant, PTL

\* on_server_connected() is called once for every connection, before the protocol has closed.
THEOREM AnswersOnce == Spec => []AnsweredOnce
<1>1. ASSUME Inv, NEW r \in Remote
      PROVE  /\ conn[r].answers <= 1
             /\ conn[r].protocol = "closed" /\ conn[r].remote # "none" => conn[r].answers = 1
  <2>1. Good(r, conn[r]) /\ conn[r] \in Chain BY <1>1, ThereIs
  <2>2. conn[r].context \in {"none", "armed", "answered", "freed"} BY <2>1 DEF Chain
  <2>3. conn[r].context = "none" => conn[r].answers = 0
    BY <2>1 DEF Good, ChainIs, IsIdle
  <2>4. conn[r].context = "armed" => conn[r].answers = 0 /\ conn[r].uncompleted
    BY <2>1 DEF Good, ContextIs
  <2>5. conn[r].context \in {"answered", "freed"} => conn[r].answers = 1
    BY <2>1 DEF Good, ContextIs
  <2>6. conn[r].protocol = "closed" => ~conn[r].uncompleted
    BY <2>1 DEF Good, ChainIs, CouldBeClose
  <2>7. conn[r].remote # "none" => conn[r].context # "none"
    BY <2>1 DEF Good, ChainIs
  <2> QED BY <2>2, <2>3, <2>4, <2>5, <2>6, <2>7
<1>2. Inv => AnsweredOnce BY <1>1 DEF AnsweredOnce
<1> QED BY <1>2, ConnectInvariant, PTL

\* The context and the protocol outlive the attempt that calls back with them, and the timer its
\* tasks, but where TimerOutlivesItsTasks says so.
THEOREM FreedIsNotUsed == Spec => []NothingFreedIsUsed
<1>1. ASSUME Inv, NEW r \in Remote
      PROVE  /\ conn[r].attempt = "first" => conn[r].context = "armed" /\ conn[r].protocol # "closed"
             /\ conn[r].attempt = "retry" /\ conn[r].protocol = "init"
                    => conn[r].context = "armed" /\ conn[r].timer = "idle"
             /\ Posted(<<"close_timer", r>>) => conn[r].timer \in {"idle", "started"}
             /\ Posted(<<"stop_timer", r>>) =>
                    \/ conn[r].timer # "none"
                    \/ conn[r].result \in {"sent", "duplicate"} /\ conn[r].protocol # "init"
  <2>1. Good(r, conn[r]) /\ Tied(r) BY <1>1 DEF Inv, Chains, Ties
  <2>2. /\ conn[r].attempt = "first" => conn[r].context = "armed" /\ conn[r].protocol # "closed"
        /\ conn[r].attempt = "retry" /\ conn[r].protocol = "init"
               => conn[r].context = "armed" /\ conn[r].timer = "idle"
    BY <2>1 DEF Good, AttemptIs, ContextIs, ChainIs, CouldBeClose
  <2>3. Posted(<<"close_timer", r>>) => conn[r].timer \in {"idle", "started"}
    BY <2>1 DEF Posted, Has, CloseTimerTask, Tied
  <2>4. Posted(<<"stop_timer", r>>) => conn[r].timer # "none" \/ Exempt(conn[r])
    BY <2>1 DEF Posted, Has, StopTask, Tied
  <2> QED BY <2>2, <2>3, <2>4 DEF Exempt
<1>2. Inv => NothingFreedIsUsed BY <1>1 DEF NothingFreedIsUsed, AttemptIsHeld, TimerOutlivesItsTasks
<1> QED BY <1>2, ConnectInvariant, PTL

\* The extensions are enabled when every other app has answered, and not before.
THEOREM EnabledLast == Spec => []EnabledWhenAllAre
<1>1. Inv => EnabledWhenAllAre BY DEF Inv, AnswersAre, HasAnswered, EnabledWhenAllAre
<1> QED BY <1>1, ConnectInvariant, PTL

=============================================================================
