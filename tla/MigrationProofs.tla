-------------------------- MODULE MigrationProofs --------------------------
(***************************************************************************)
(* A connection that moves to the thread of its engine loses no message,   *)
(* and wherever it belongs, messages arrive in their order, the close      *)
(* comes last and one thread at a time has the connection: for scripts of  *)
(* any length, cut into any pieces.                                        *)
(*                                                                         *)
(* A connection that moves goes through five phases, and what is where is  *)
(* known in each of them: it idles in the app's thread, it moves, it is    *)
(* attached to the engine with its first message still queued, it has a    *)
(* remote but the messages put aside wait for their task, and the remote   *)
(* is served by the socket alone.  One that stays has phases of its own.   *)
(* The proof takes one phase at a time.                                    *)
(***************************************************************************)
EXTENDS Migration, SequenceTheorems, TLAPS

\* The messages from a + 1 to b, in their order.
Ups(a, b) == [i \in 1..(b - a) |-> a + i]

Common ==
    /\ script \in Seq(Kinds)
    /\ read \in 0..Len(script)
    /\ protocol \in {"init", "closing", "closed"}
    /\ tasks \in [Threads -> Seq(Tasks)]

Kept == Common /\ lost = {}

\* Nothing has been read yet.
Idle ==
    /\ read = 0
    /\ migration_state = "init" /\ attach_to = "app"
    /\ moving = 0
    /\ stream = IF protocol = "closed" THEN "none" ELSE "app"
    /\ ~is_cleaned
    /\ handled = <<>> /\ in_msgs = <<>> /\ engine_msgs = <<>>
    /\ tasks["engine"] = <<>>
    /\ \/ tasks["app"] = <<>>
       \/ tasks["app"] = <<"close">> /\ reading = FALSE /\ protocol = "init"

\* The engine's thread waits until the app's has cleaned its side.
Waiting ==
    /\ moving = 7
    /\ \/ tasks["app"] = <<"clean">> /\ stream = "app" /\ ~is_cleaned
       \/ tasks["app"] = <<>> /\ stream = "cleaning" /\ ~is_cleaned
       \/ tasks["app"] = <<>> /\ stream = "none"

\* The first message moves with the connection, the others are put aside.
Shaking ==
    /\ read >= 1
    /\ reading = FALSE /\ protocol = "init"
    /\ migration_state = "first_msg" /\ attach_to = "app"
    /\ carried = 1
    /\ handled = <<>> /\ in_msgs = Ups(1, read) /\ engine_msgs = <<>>
    /\ tasks["engine"] = <<>>
    /\ \/ moving \in 1..6 /\ tasks["app"] = <<>> /\ stream = "app" /\ ~is_cleaned
       \/ Waiting

\* The connection has moved, and its socket is not read before these tasks are done.
Moved ==
    /\ read >= 1
    /\ protocol = "init" /\ stream = "engine"
    /\ migration_state = "done"
    /\ moving = 0
    /\ in_msgs = Ups(1, read)
    /\ tasks["app"] = <<>>

Attached ==
    /\ Moved
    /\ attach_to = "engine"
    /\ handled = <<>> /\ engine_msgs = <<1>>
    /\ tasks["engine"] = <<"handle_in_msgs", "on_cleaned">>

Linked ==
    /\ Moved
    /\ attach_to = "remote"
    /\ handled = Ups(0, 1) /\ engine_msgs = <<>>
    /\ tasks["engine"] = <<"on_cleaned">>

\* All that was read has arrived.
Served ==
    /\ migration_state = "done" /\ attach_to = "remote"
    /\ moving = 0
    /\ stream = IF protocol = "closed" THEN "none" ELSE "engine"
    /\ handled = Ups(0, read) /\ in_msgs = <<>> /\ engine_msgs = <<>>
    /\ tasks["app"] = <<>>
    /\ \/ tasks["engine"] = <<>>
       \/ tasks["engine"] = <<"close">> /\ protocol = "init"

Phase == Idle \/ Shaking \/ Attached \/ Linked \/ Served

MInv == Moves => Kept /\ Phase

-----------------------------------------------------------------------------
(* A connection that stays in the app's thread, until a message finds no    *)
(* engine.                                                                 *)

\* Increasing, up to b.
Rising(s, b) ==
    /\ s \in Seq(Nat)
    /\ \A i \in 1..Len(s) : s[i] <= b
    /\ \A i, j \in 1..Len(s) : i < j => s[i] < s[j]

\* The app's runloop has the tasks ts, and perhaps behind them the one that closes.
AppHas(ts) ==
    \/ tasks["app"] = ts /\ (ts # <<>> => protocol = "init")
    \/ tasks["app"] = Append(ts, "close") /\ protocol = "init" /\ reading = FALSE

Stays ==
    /\ moving = 0
    /\ tasks["engine"] = <<>>
    /\ stream = IF protocol = "closed" THEN "none" ELSE "app"

\* The app has handled or dropped the first message.
Dropped ==
    /\ Stays
    /\ AppHas(<<>>)
    /\ migration_state = "first_msg" /\ attach_to = "app"
    /\ handled = <<1>> /\ engine_msgs = <<>>

\* The engine has the first message, and its connection is attached to it.
WithEngine ==
    /\ Stays /\ ~own_loop
    /\ migration_state = "done" /\ attach_to = "engine"
    /\ handled = <<>> /\ engine_msgs = <<1>>

Upgraded == WithEngine /\ AppHas(<<"on_cleaned", "handle_in_msgs">>)
Cleared == WithEngine /\ AppHas(<<"handle_in_msgs">>) /\ in_msgs = <<>>

\* The remote takes what is read.
Shared ==
    /\ Stays /\ ~own_loop
    /\ AppHas(<<>>)
    /\ migration_state = "done" /\ attach_to = "remote"
    /\ Rising(handled, read) /\ in_msgs = <<>> /\ engine_msgs = <<>>

StayPhase == Idle \/ Dropped \/ (Upgraded /\ read >= 1) \/ (Cleared /\ read >= 1) \/ Shared

SInv == ~Moves /\ ~reset => Common /\ StayPhase

-----------------------------------------------------------------------------
(* Sequences of messages, and the queues of tasks.                         *)

LEMMA UpsFacts ==
    ASSUME NEW a \in Nat, NEW b \in Nat, a <= b
    PROVE  /\ Ups(a, b) \in Seq(Nat)
           /\ Len(Ups(a, b)) = b - a
           /\ \A i \in 1..(b - a) : Ups(a, b)[i] = a + i
<1>1. Ups(a, b) \in [1..(b - a) -> Nat]
  BY DEF Ups
<1>2. b - a \in Nat
  OBVIOUS
<1> QED
  BY <1>1, <1>2 DEF Ups

LEMMA UpsEmpty == ASSUME NEW a \in Nat PROVE Ups(a, a) = <<>>
BY DEF Ups

LEMMA UpsOne == Ups(0, 1) = <<1>>
BY DEF Ups

\* The first of the messages, and the rest.
LEMMA UpsTail ==
    ASSUME NEW a \in Nat, NEW b \in Nat, a < b
    PROVE  /\ Ups(a, b) # <<>>
           /\ Head(Ups(a, b)) = a + 1
           /\ Tail(Ups(a, b)) = Ups(a + 1, b)
<1>1. /\ Ups(a, b) \in Seq(Nat) /\ Len(Ups(a, b)) = b - a
      /\ \A i \in 1..(b - a) : Ups(a, b)[i] = a + i
  BY UpsFacts
<1>2. /\ Ups(a + 1, b) \in Seq(Nat) /\ Len(Ups(a + 1, b)) = b - (a + 1)
      /\ \A i \in 1..(b - (a + 1)) : Ups(a + 1, b)[i] = (a + 1) + i
  BY UpsFacts
<1>3. Ups(a, b) # <<>> /\ Head(Ups(a, b)) = a + 1
  BY <1>1
<1>4. /\ Tail(Ups(a, b)) \in Seq(Nat)
      /\ Len(Tail(Ups(a, b))) = Len(Ups(a, b)) - 1
      /\ \A i \in 1..(Len(Ups(a, b)) - 1) : Tail(Ups(a, b))[i] = Ups(a, b)[i + 1]
  BY <1>1, <1>3, HeadTailProperties
<1>5. \A i \in 1..(b - (a + 1)) : Tail(Ups(a, b))[i] = Ups(a + 1, b)[i]
  BY <1>1, <1>2, <1>4
<1>6. Tail(Ups(a, b)) = Ups(a + 1, b)
  <2>1. Len(Tail(Ups(a, b))) = Len(Ups(a + 1, b))
    BY <1>1, <1>2, <1>4
  <2>2. \A i \in 1..Len(Tail(Ups(a, b))) : Tail(Ups(a, b))[i] = Ups(a + 1, b)[i]
    BY <1>2, <1>5, <2>1
  <2> QED
    BY <1>2, <1>4, <2>1, <2>2, SeqEqual
<1> QED
  BY <1>3, <1>6

\* Pieces that follow each other are one piece.
LEMMA UpsConcat ==
    ASSUME NEW a \in Nat, NEW b \in Nat, NEW c \in Nat, a <= b, b <= c
    PROVE  Ups(a, b) \o Ups(b, c) = Ups(a, c)
<1>1. /\ Ups(a, b) \in Seq(Nat) /\ Len(Ups(a, b)) = b - a
      /\ \A i \in 1..(b - a) : Ups(a, b)[i] = a + i
  BY UpsFacts
<1>2. /\ Ups(b, c) \in Seq(Nat) /\ Len(Ups(b, c)) = c - b
      /\ \A i \in 1..(c - b) : Ups(b, c)[i] = b + i
  BY UpsFacts
<1>3. /\ Ups(a, c) \in Seq(Nat) /\ Len(Ups(a, c)) = c - a
      /\ \A i \in 1..(c - a) : Ups(a, c)[i] = a + i
  BY UpsFacts
<1>4. /\ Ups(a, b) \o Ups(b, c) \in Seq(Nat)
      /\ Len(Ups(a, b) \o Ups(b, c)) = c - a
      /\ \A i \in 1..(c - a) : (Ups(a, b) \o Ups(b, c))[i] = a + i
  <2>1. /\ Ups(a, b) \o Ups(b, c) \in Seq(Nat)
        /\ Len(Ups(a, b) \o Ups(b, c)) = Len(Ups(a, b)) + Len(Ups(b, c))
        /\ \A i \in 1..(Len(Ups(a, b)) + Len(Ups(b, c))) :
              (Ups(a, b) \o Ups(b, c))[i]
                = IF i <= Len(Ups(a, b)) THEN Ups(a, b)[i] ELSE Ups(b, c)[i - Len(Ups(a, b))]
    <3>1. Ups(a, b) \in Seq(Nat) /\ Ups(b, c) \in Seq(Nat)
      BY <1>1, <1>2
    <3> QED
      BY <3>1, ConcatProperties
  <2>2. ASSUME NEW i \in 1..(c - a) PROVE (Ups(a, b) \o Ups(b, c))[i] = a + i
    <3>1. (Ups(a, b) \o Ups(b, c))[i]
             = IF i <= b - a THEN Ups(a, b)[i] ELSE Ups(b, c)[i - (b - a)]
      <4>1. Len(Ups(a, b)) = b - a /\ Len(Ups(b, c)) = c - b
        BY <1>1, <1>2, Zenon
      <4>2. i \in 1..(Len(Ups(a, b)) + Len(Ups(b, c)))
        BY <4>1
      <4>3. (Ups(a, b) \o Ups(b, c))[i]
               = IF i <= Len(Ups(a, b)) THEN Ups(a, b)[i] ELSE Ups(b, c)[i - Len(Ups(a, b))]
        BY <2>1, <4>2, Zenon
      <4> QED
        BY <4>1, <4>3, Zenon
    <3>2. CASE i <= b - a
      <4>1. i \in 1..(b - a)
        BY <3>2
      <4>2. (Ups(a, b) \o Ups(b, c))[i] = Ups(a, b)[i]
        BY <3>1, <3>2, Zenon
      <4>3. Ups(a, b)[i] = a + i
        BY <1>1, <4>1, Zenon
      <4> QED
        BY <4>2, <4>3, Zenon
    <3>3. CASE ~(i <= b - a)
      <4>1. i - (b - a) \in 1..(c - b)
        BY <3>3
      <4>2. (Ups(a, b) \o Ups(b, c))[i] = Ups(b, c)[i - (b - a)]
        BY <3>1, <3>3, Zenon
      <4>3. Ups(b, c)[i - (b - a)] = b + (i - (b - a))
        BY <1>2, <4>1, Zenon
      <4>4. b + (i - (b - a)) = a + i
        OBVIOUS
      <4> QED
        BY <4>2, <4>3, <4>4, Zenon
    <3> QED
      BY <3>2, <3>3
  <2> QED
    BY <1>1, <1>2, <2>1, <2>2
<1> QED
  BY <1>3, <1>4, SeqEqual

LEMMA OneTask ==
    ASSUME NEW a, NEW b
    PROVE  /\ <<a>> # <<>> /\ Tail(<<a>>) = <<>>
           /\ Append(<<a>>, b) # <<>> /\ Tail(Append(<<a>>, b)) = Append(<<>>, b)
<1>1. <<>> \in Seq({a, b}) /\ <<a>> \in Seq({a, b}) /\ b \in {a, b}
  OBVIOUS
<1>2. /\ Append(<<a>>, b) \in Seq({a, b}) /\ Append(<<a>>, b) # <<>>
      /\ Len(Append(<<a>>, b)) = 2
      /\ Append(<<a>>, b)[1] = a /\ Append(<<a>>, b)[2] = b
  BY <1>1, AppendProperties
<1>3. /\ Append(<<>>, b) \in Seq({a, b}) /\ Len(Append(<<>>, b)) = 1
      /\ Append(<<>>, b)[1] = b
  BY <1>1, AppendProperties
<1>4. Tail(<<a>>) = <<>> /\ <<a>> # <<>>
  OBVIOUS
<1>5. /\ Tail(Append(<<a>>, b)) \in Seq({a, b}) /\ Len(Tail(Append(<<a>>, b))) = 1
      /\ Tail(Append(<<a>>, b))[1] = b
  BY <1>2, HeadTailProperties
<1>6. Tail(Append(<<a>>, b)) = Append(<<>>, b)
  <2>1. \A i \in 1..Len(Tail(Append(<<a>>, b))) :
           Tail(Append(<<a>>, b))[i] = Append(<<>>, b)[i]
    BY <1>3, <1>5
  <2>2. Len(Tail(Append(<<a>>, b))) = Len(Append(<<>>, b))
    BY <1>3, <1>5
  <2> QED
    BY <1>3, <1>5, <2>1, <2>2, SeqEqual, Zenon
<1> QED
  BY <1>2, <1>4, <1>6

LEMMA PostFacts ==
    ASSUME NEW queues \in [Threads -> Seq(Tasks)], NEW t \in Threads, NEW task \in Tasks
    PROVE  /\ Post(queues, t, task) \in [Threads -> Seq(Tasks)]
           /\ Post(queues, t, task)[t] = Append(queues[t], task)
           /\ \A u \in Threads \ {t} : Post(queues, t, task)[u] = queues[u]
BY DEF Post

\* The same for either thread.
LEMMA PostApp ==
    ASSUME NEW queues \in [Threads -> Seq(Tasks)], NEW task \in Tasks
    PROVE  /\ Post(queues, "app", task) \in [Threads -> Seq(Tasks)]
           /\ Post(queues, "app", task)["app"] = Append(queues["app"], task)
           /\ Post(queues, "app", task)["engine"] = queues["engine"]
<1>1. "app" \in Threads /\ "engine" \in Threads /\ "engine" # "app"
  BY DEF Threads
<1> QED
  BY <1>1 DEF Post

LEMMA PostEngine ==
    ASSUME NEW queues \in [Threads -> Seq(Tasks)], NEW task \in Tasks
    PROVE  /\ Post(queues, "engine", task) \in [Threads -> Seq(Tasks)]
           /\ Post(queues, "engine", task)["engine"] = Append(queues["engine"], task)
           /\ Post(queues, "engine", task)["app"] = queues["app"]
<1>1. "engine" \in Threads /\ "app" \in Threads /\ "app" # "engine"
  BY DEF Threads
<1> QED
  BY <1>1 DEF Post

\* The tasks, one by one.
LEMMA TaskNames ==
    "clean" \in Tasks /\ "handle_in_msgs" \in Tasks /\ "on_cleaned" \in Tasks /\ "close" \in Tasks
BY DEF Tasks

LEMMA TakenFacts ==
    ASSUME tasks \in [Threads -> Seq(Tasks)], NEW t \in Threads, tasks[t] # <<>>
    PROVE  /\ Taken(t) \in [Threads -> Seq(Tasks)]
           /\ Taken(t)[t] = Tail(tasks[t])
           /\ \A u \in Threads \ {t} : Taken(t)[u] = tasks[u]
<1>1. Tail(tasks[t]) \in Seq(Tasks)
  BY HeadTailProperties
<1> QED
  BY <1>1 DEF Taken

\* What the client sends and where the engine runs never change.
LEMMA Fixed == ASSUME Next PROVE own_loop' = own_loop /\ script' = script
BY DEF Next, Read, HangUp, Move, Handshake, Migrated, ConnectionCleaned, Clear, Clean,
       StreamCleaned, StreamClosed, HandleInMsgs, Run, CloseTask, OnCleaned

\* The actions, one by one.
LEMMA Steps ==
    ASSUME Next
    PROVE  \/ \E n \in 1..(Len(script) - read) : Read(n)
           \/ HangUp \/ Handshake \/ Migrated \/ ConnectionCleaned
           \/ Clean \/ StreamCleaned \/ StreamClosed \/ HandleInMsgs
           \/ \E t \in Threads : CloseTask(t) \/ OnCleaned(t)
BY DEF Next, Move, Clear, Run

\* What is read next.
LEMMA Piece ==
    ASSUME Common, NEW n \in 1..(Len(script) - read)
    PROVE  /\ [i \in 1..n |-> read + i] = Ups(read, read + n)
           /\ read \in Nat /\ read + n \in 0..Len(script) /\ read < read + n
<1>1. read \in Nat /\ n \in Nat /\ Len(script) \in Nat
  BY DEF Common
<1> QED
  BY <1>1 DEF Ups, Common

-----------------------------------------------------------------------------
(* One lemma per phase.                                                    *)

\* Before the first message a client may leave.
LEMMA IdleRest ==
    ASSUME Common, Idle, Next, ~\E n \in 1..(Len(script) - read) : Read(n)
    PROVE  Common' /\ Idle' /\ UNCHANGED <<lost, reset>>
<1> USE DEF Threads
<1>1. own_loop' = own_loop /\ script' = script
  BY Fixed
<1>2. CASE HangUp
  <2>1. /\ tasks["app"] = <<>> /\ tasks' = Post(tasks, "app", "close")
        /\ reading' = FALSE /\ protocol' = protocol /\ protocol = "init"
    BY <1>2 DEF HangUp, Readable, End, AttachedThread, Idle
  <2>2. /\ tasks' \in [Threads -> Seq(Tasks)]
        /\ tasks'["app"] = Append(tasks["app"], "close")
        /\ tasks'["engine"] = tasks["engine"]
    BY <2>1, PostApp, TaskNames DEF Common
  <2> QED
    BY <1>1, <1>2, <2>1, <2>2 DEF HangUp, Common, Idle
<1>3. CASE Handshake \/ Migrated \/ ConnectionCleaned \/ Clean
  BY <1>3 DEF Handshake, Migrated, ConnectionCleaned, Clean, Moving, Idle
<1>4. CASE StreamCleaned \/ HandleInMsgs
  BY <1>4 DEF StreamCleaned, HandleInMsgs, Task, EngineThread, Idle
<1>5. CASE StreamClosed
  BY <1>1, <1>5 DEF StreamClosed, Common, Idle
<1>6. ASSUME NEW t \in Threads, CloseTask(t) PROVE Common' /\ Idle' /\ UNCHANGED <<lost, reset>>
  <2>1. t = "app" /\ tasks["app"] = <<"close">> /\ tasks' = Taken("app")
    BY <1>6 DEF CloseTask, Task, Idle
  <2>2. /\ tasks' \in [Threads -> Seq(Tasks)]
        /\ tasks'["app"] = <<>> /\ tasks'["engine"] = tasks["engine"]
    <3>1. tasks["app"] # <<>> /\ Tail(tasks["app"]) = <<>>
      BY <2>1
    <3>2. /\ Taken("app") \in [Threads -> Seq(Tasks)]
          /\ Taken("app")["app"] = Tail(tasks["app"])
          /\ \A u \in Threads \ {"app"} : Taken("app")[u] = tasks[u]
      BY <3>1, TakenFacts DEF Common
    <3> QED
      BY <2>1, <3>1, <3>2
  <2> QED
    BY <1>1, <1>6, <2>2 DEF CloseTask, Common, Idle
<1>7. ASSUME NEW t \in Threads, OnCleaned(t) PROVE FALSE
  BY <1>7 DEF OnCleaned, Task, Idle
<1> QED
  BY <1>2, <1>3, <1>4, <1>5, <1>6, <1>7, Steps

\* The first message begins the migration.
LEMMA IdleStep == ASSUME Moves, Kept, Idle, Next PROVE Kept' /\ Phase'
<1> USE DEF Threads, Kept
<1>1. own_loop' = own_loop /\ script' = script
  BY Fixed
<1>2. ASSUME NEW n \in 1..(Len(script) - read), Read(n) PROVE Kept' /\ Shaking'
  <2>1. n \in Nat /\ 0 < n /\ [i \in 1..n |-> read + i] = Ups(0, n)
    BY Piece DEF Idle, Common
  <2>2. Head(Ups(0, n)) = 1 /\ Tail(Ups(0, n)) = Ups(1, n)
    <3>1. Head(Ups(0, n)) = 0 + 1 /\ Tail(Ups(0, n)) = Ups(0 + 1, n)
      BY <2>1, UpsTail
    <3> QED
      BY <3>1
  <2>3. FirstMsg(Ups(0, n), <<>>, tasks)
    BY <1>2, <2>1 DEF Read, OnInputs, Idle
  <2>4. /\ in_msgs' = <<>> \o Ups(1, n)
        /\ Migrate(1, tasks)
        /\ lost' = lost
    BY <2>2, <2>3 DEF FirstMsg, Split, Moves
  <2>5. Ups(1, n) \in Seq(Nat)
    BY <2>1, UpsFacts
  <2>6. in_msgs' = Ups(1, n)
    BY <2>4, <2>5
  <2>7. /\ read' = n /\ n \in 0..Len(script)
        /\ UNCHANGED <<stream, is_cleaned, protocol>>
        /\ reading /\ protocol = "init"
    BY <1>2, <2>1, Piece DEF Read, Readable, Idle
  <2> QED
    <3>1. Kept'
      BY <1>1, <2>4, <2>7 DEF Migrate, Common
    <3>2. Shaking'
      BY <2>1, <2>4, <2>6, <2>7 DEF Migrate, Idle, Shaking
    <3> QED
      BY <3>1, <3>2
<1>3. CASE \E n \in 1..(Len(script) - read) : Read(n)
  BY <1>2, <1>3 DEF Phase
<1> QED
  BY <1>3, IdleRest DEF Phase

\* Nobody reads while the connection moves: the handshake, the cleaning and the end of the
\* wait follow each other.
LEMMA ShakingStep == ASSUME Moves, Kept, Shaking, Next PROVE Kept' /\ Phase'
<1> USE DEF Threads, Kept
<1>1. own_loop' = own_loop /\ script' = script
  BY Fixed
<1>2. ASSUME NEW n \in 1..(Len(script) - read), Read(n) PROVE FALSE
  BY <1>2 DEF Read, Readable, Shaking
<1>3. CASE HangUp \/ HandleInMsgs \/ StreamClosed
  BY <1>3 DEF HangUp, Readable, HandleInMsgs, Task, EngineThread, StreamClosed, Shaking, Moves
<1>4. CASE Handshake
  BY <1>1, <1>4 DEF Handshake, LastStep, Common, Shaking, Waiting, Phase
<1>5. CASE Migrated
  <2>1. /\ tasks' \in [Threads -> Seq(Tasks)]
        /\ tasks'["app"] = Append(tasks["app"], "clean")
        /\ tasks'["engine"] = tasks["engine"]
    BY <1>5, PostApp, TaskNames DEF Migrated, Common
  <2>2. tasks["app"] = <<>> /\ stream = "app" /\ ~is_cleaned
    BY <1>5 DEF Migrated, Shaking, Waiting
  <2>3. tasks'["app"] = <<"clean">>
    BY <2>1, <2>2
  <2>4. Kept'
    BY <1>1, <1>5, <2>1 DEF Migrated, Common
  <2>5. Shaking'
    BY <1>5, <2>1, <2>2, <2>3 DEF Migrated, Shaking, Waiting
  <2> QED
    BY <2>4, <2>5 DEF Phase
<1>6. CASE Clean
  <2>1. Waiting /\ tasks["app"] = <<"clean">> /\ ~is_cleaned
    BY <1>6 DEF Clean, Task, Shaking, Waiting
  <2>2. tasks["app"] # <<>> /\ Tail(tasks["app"]) = <<>>
    BY <2>1
  <2>3. /\ Taken("app") \in [Threads -> Seq(Tasks)]
        /\ Taken("app")["app"] = Tail(tasks["app"])
        /\ \A u \in Threads \ {"app"} : Taken("app")[u] = tasks[u]
    BY <2>2, TakenFacts DEF Common
  <2>4. /\ tasks' \in [Threads -> Seq(Tasks)]
        /\ tasks'["app"] = <<>> /\ tasks'["engine"] = tasks["engine"]
    BY <1>6, <2>2, <2>3 DEF Clean
  <2>5. Kept'
    BY <1>1, <1>6, <2>4 DEF Clean, Common
  <2>6. Shaking'
    BY <1>6, <2>1, <2>4 DEF Clean, Shaking, Waiting
  <2> QED
    BY <2>5, <2>6 DEF Phase
<1>7. CASE StreamCleaned
  BY <1>1, <1>7 DEF StreamCleaned, Common, Shaking, Waiting, Phase
<1>8. CASE ConnectionCleaned
  <2>1. Waiting /\ tasks["app"] = <<>>
    BY <1>8 DEF ConnectionCleaned, Cleaned, Shaking, Waiting
  <2>2. PICK first : first = Post(tasks, "engine", "handle_in_msgs")
    OBVIOUS
  <2>3. /\ first \in [Threads -> Seq(Tasks)]
        /\ first["engine"] = Append(tasks["engine"], "handle_in_msgs")
        /\ first["app"] = tasks["app"]
    BY <2>2, PostEngine, TaskNames DEF Common
  <2>4. /\ Post(first, "engine", "on_cleaned") \in [Threads -> Seq(Tasks)]
        /\ Post(first, "engine", "on_cleaned")["engine"] = Append(first["engine"], "on_cleaned")
        /\ \A u \in Threads \ {"engine"} :
              Post(first, "engine", "on_cleaned")[u] = first[u]
    <3>1. "engine" \in Threads /\ "on_cleaned" \in Tasks
      BY DEF Tasks
    <3> QED
      BY <2>3, <3>1, PostFacts
  <2>5. tasks' = Post(first, "engine", "on_cleaned")
    BY <1>8, <2>2 DEF ConnectionCleaned, AppendThenUpgrade
  <2>6. tasks["engine"] = <<>> /\ engine_msgs = <<>> /\ carried = 1
    BY DEF Shaking
  <2>7. tasks'["engine"] = <<"handle_in_msgs", "on_cleaned">> /\ tasks'["app"] = <<>>
    BY <2>1, <2>3, <2>4, <2>5, <2>6
  <2>8. engine_msgs' = <<1>>
    BY <1>8, <2>6 DEF ConnectionCleaned
  <2>9. Kept'
    BY <1>1, <1>8, <2>4, <2>5 DEF ConnectionCleaned, Common
  <2>10. Attached'
    BY <1>8, <2>7, <2>8 DEF ConnectionCleaned, Shaking, Attached, Moved
  <2> QED
    BY <2>9, <2>10 DEF Phase
<1>9. ASSUME NEW t \in Threads, CloseTask(t) \/ OnCleaned(t) PROVE FALSE
  BY <1>9 DEF CloseTask, OnCleaned, Task, Shaking, Waiting
<1> QED
  BY <1>2, <1>3, <1>4, <1>5, <1>6, <1>7, <1>8, <1>9, Steps DEF Phase

\* The engine's thread has its two tasks before it reads on: first the connection gets a
\* remote, which takes the first message.
LEMMA AttachedStep == ASSUME Moves, Kept, Attached, Next PROVE Kept' /\ Phase'
<1> USE DEF Threads, Kept
<1>1. own_loop' = own_loop /\ script' = script
  BY Fixed
<1>2. HandleInMsgs
  <2>1. ASSUME NEW n \in 1..(Len(script) - read), Read(n) PROVE FALSE
    BY <2>1 DEF Read, Readable, Reader, Attached, Moved
  <2>2. ~HangUp
    BY DEF HangUp, Readable, Reader, Attached, Moved
  <2>3. ~Handshake /\ ~Migrated /\ ~ConnectionCleaned /\ ~Clean
    BY DEF Handshake, Migrated, ConnectionCleaned, Clean, Moving, Attached, Moved
  <2>4. ~StreamCleaned /\ ~StreamClosed
    BY DEF StreamCleaned, StreamClosed, Attached, Moved
  <2>5. ASSUME NEW t \in Threads, CloseTask(t) \/ OnCleaned(t) PROVE FALSE
    BY <2>5 DEF CloseTask, OnCleaned, Task, Attached, Moved
  <2> QED
    BY <2>1, <2>2, <2>3, <2>4, <2>5, Steps
<1>3. tasks["engine"] # <<>> /\ Tail(tasks["engine"]) = <<"on_cleaned">>
  BY DEF Attached
<1>4. /\ Taken("engine") \in [Threads -> Seq(Tasks)]
      /\ Taken("engine")["engine"] = Tail(tasks["engine"])
      /\ \A u \in Threads \ {"engine"} : Taken("engine")[u] = tasks[u]
  BY <1>3, TakenFacts DEF Common
<1>5. tasks' = Taken("engine")
  BY <1>2 DEF HandleInMsgs, EngineThread, Moves
<1>6. handled' = <<1>>
  BY <1>2 DEF HandleInMsgs, Attached
<1>7. Kept'
  BY <1>1, <1>2, <1>4, <1>5 DEF HandleInMsgs, Common
<1>8. Linked'
  BY <1>2, <1>3, <1>4, <1>5, <1>6, UpsOne DEF HandleInMsgs, Attached, Moved, Linked
<1> QED
  BY <1>7, <1>8 DEF Phase

\* Then the remote takes what was put aside.
LEMMA LinkedStep == ASSUME Moves, Kept, Linked, Next PROVE Kept' /\ Phase'
<1> USE DEF Threads, Kept
<1>1. own_loop' = own_loop /\ script' = script
  BY Fixed
<1>2. OnCleaned("engine")
  <2>1. ASSUME NEW n \in 1..(Len(script) - read), Read(n) PROVE FALSE
    BY <2>1 DEF Read, Readable, Reader, Linked, Moved
  <2>2. ~HangUp
    BY DEF HangUp, Readable, Reader, Linked, Moved
  <2>3. ~Handshake /\ ~Migrated /\ ~ConnectionCleaned /\ ~Clean
    BY DEF Handshake, Migrated, ConnectionCleaned, Clean, Moving, Linked, Moved
  <2>4. ~StreamCleaned /\ ~StreamClosed
    BY DEF StreamCleaned, StreamClosed, Linked, Moved
  <2>5. ~HandleInMsgs
    <3>1. EngineThread = "engine" /\ Head(tasks["engine"]) # "handle_in_msgs"
      BY DEF EngineThread, Linked, Moves
    <3> QED
      BY <3>1 DEF HandleInMsgs, Task
  <2>6. ASSUME NEW t \in Threads, CloseTask(t) PROVE FALSE
    BY <2>6 DEF CloseTask, Task, Linked, Moved
  <2>7. ~OnCleaned("app")
    BY DEF OnCleaned, Task, Linked, Moved
  <2> QED
    BY <2>1, <2>2, <2>3, <2>4, <2>5, <2>6, <2>7, Steps
<1>3. tasks["engine"] # <<>> /\ Tail(tasks["engine"]) = <<>>
  BY DEF Linked
<1>4. /\ Taken("engine") \in [Threads -> Seq(Tasks)]
      /\ Taken("engine")["engine"] = Tail(tasks["engine"])
      /\ \A u \in Threads \ {"engine"} : Taken("engine")[u] = tasks[u]
  BY <1>3, TakenFacts DEF Common
<1>5. /\ tasks' = Taken("engine") /\ in_msgs' = <<>>
      /\ handled' = Ups(0, read)
      /\ UNCHANGED <<migration_state, attach_to, moving, engine_msgs, lost>>
  <2>1. read \in Nat /\ read >= 1
    BY DEF Common, Linked, Moved
  <2>2. TakeThem("engine")
    BY <1>2 DEF OnCleaned
  <2>3. CASE in_msgs = <<>>
    <3>1. read = 1
      BY <2>1, <2>3, UpsFacts DEF Linked, Moved
    <3> QED
      BY <2>2, <2>3, <3>1 DEF TakeThem, Ignore, Linked
  <2>4. CASE in_msgs # <<>>
    <3>1. LaterMsgs(in_msgs, <<>>, Taken("engine"))
      BY <2>2, <2>4 DEF TakeThem, OnInputs, Linked, Moved
    <3>2. handled' = Ups(0, 1) \o Ups(1, read) /\ lost' = lost
      BY <3>1 DEF LaterMsgs, Linked, Moved
    <3>3. Ups(0, 1) \o Ups(1, read) = Ups(0, read)
      <4>1. 0 \in Nat /\ 1 \in Nat /\ read \in Nat /\ 0 <= 1 /\ 1 <= read
        BY <2>1
      <4> QED
        BY <4>1, UpsConcat
    <3> QED
      BY <3>1, <3>2, <3>3 DEF LaterMsgs
  <2> QED
    BY <2>3, <2>4
<1>6. UNCHANGED <<read, stream, protocol>>
  BY <1>2 DEF OnCleaned
<1>7. Kept'
  BY <1>1, <1>4, <1>5, <1>6 DEF Common
<1>8. Served'
  BY <1>3, <1>4, <1>5, <1>6 DEF Linked, Moved, Served
<1> QED
  BY <1>7, <1>8 DEF Phase

\* From then on the remote takes whatever is read.
LEMMA ServedStep == ASSUME Moves, Kept, Served, Next PROVE Kept' /\ Phase'
<1> USE DEF Threads, Kept
<1>1. own_loop' = own_loop /\ script' = script
  BY Fixed
<1>2. ASSUME NEW n \in 1..(Len(script) - read), Read(n) PROVE Kept' /\ Served'
  <2>1. /\ [i \in 1..n |-> read + i] = Ups(read, read + n)
        /\ 0 \in Nat /\ read \in Nat /\ read + n \in Nat
        /\ 0 <= read /\ read <= read + n /\ read + n \in 0..Len(script)
    BY Piece DEF Common
  <2>2. LaterMsgs(Ups(read, read + n), in_msgs, tasks)
    BY <1>2, <2>1 DEF Read, OnInputs, Served
  <2>3. handled' = Ups(0, read) \o Ups(read, read + n) /\ lost' = lost
    BY <2>2 DEF LaterMsgs, Served
  <2>4. Ups(0, read) \o Ups(read, read + n) = Ups(0, read + n)
    BY <2>1, UpsConcat
  <2>5. read' = read + n /\ UNCHANGED <<stream, protocol>>
    BY <1>2 DEF Read
  <2>6. /\ in_msgs' = in_msgs /\ tasks' = tasks
        /\ UNCHANGED <<moving, migration_state, attach_to, engine_msgs>>
    BY <2>2 DEF LaterMsgs
  <2>7. Kept'
    BY <1>1, <2>1, <2>3, <2>5, <2>6 DEF Common
  <2>8. Served'
    BY <2>3, <2>4, <2>5, <2>6 DEF Served
  <2> QED
    BY <2>7, <2>8
<1>3. CASE HangUp
  <2>1. /\ tasks["engine"] = <<>> /\ tasks' = Post(tasks, "engine", "close")
        /\ protocol' = protocol /\ protocol = "init"
    BY <1>3 DEF HangUp, Readable, Reader, End, AttachedThread, EngineThread, Served, Moves
  <2>2. /\ Post(tasks, "engine", "close") \in [Threads -> Seq(Tasks)]
        /\ Post(tasks, "engine", "close")["engine"] = Append(tasks["engine"], "close")
        /\ Post(tasks, "engine", "close")["app"] = tasks["app"]
    BY PostEngine, TaskNames DEF Common
  <2>3. tasks'["engine"] = <<"close">> /\ tasks'["app"] = tasks["app"]
    BY <2>1, <2>2
  <2>4. Kept'
    BY <1>1, <1>3, <2>1, <2>2 DEF HangUp, Common
  <2>5. Served'
    BY <1>3, <2>1, <2>3 DEF HangUp, Served
  <2> QED
    BY <2>4, <2>5 DEF Phase
<1>4. CASE Handshake \/ Migrated \/ ConnectionCleaned \/ Clean
  BY <1>4 DEF Handshake, Migrated, ConnectionCleaned, Clean, Moving, Served
<1>5. CASE StreamCleaned
  BY <1>5 DEF StreamCleaned, Served
<1>6. CASE StreamClosed
  BY <1>1, <1>6 DEF StreamClosed, Common, Served, Phase
<1>7. ~HandleInMsgs
  <2>1. EngineThread = "engine"
    BY DEF EngineThread, Moves
  <2> QED
    BY <2>1 DEF HandleInMsgs, Task, Served
<1>8. ASSUME NEW t \in Threads, CloseTask(t) PROVE Kept' /\ Served'
  <2>1. t = "engine" /\ tasks["engine"] = <<"close">> /\ tasks' = Taken("engine")
    BY <1>8 DEF CloseTask, Task, Served
  <2>2. tasks["engine"] # <<>> /\ Tail(tasks["engine"]) = <<>>
    BY <2>1
  <2>3. /\ Taken("engine") \in [Threads -> Seq(Tasks)]
        /\ Taken("engine")["engine"] = Tail(tasks["engine"])
        /\ \A u \in Threads \ {"engine"} : Taken("engine")[u] = tasks[u]
    BY <2>2, TakenFacts DEF Common
  <2>4. /\ tasks' \in [Threads -> Seq(Tasks)]
        /\ tasks'["engine"] = <<>> /\ tasks'["app"] = tasks["app"]
    BY <2>1, <2>2, <2>3
  <2>5. Kept'
    BY <1>1, <1>8, <2>4 DEF CloseTask, Common
  <2>6. Served'
    BY <1>8, <2>4 DEF CloseTask, Served, Common
  <2> QED
    BY <2>5, <2>6
<1>9. ASSUME NEW t \in Threads, OnCleaned(t) PROVE FALSE
  BY <1>9 DEF OnCleaned, Task, Served
<1> QED
  BY <1>2, <1>3, <1>4, <1>5, <1>6, <1>7, <1>8, <1>9, Steps DEF Phase

-----------------------------------------------------------------------------
(* The same for a connection that stays in the app's thread.               *)

\* What comes behind an increasing sequence.
LEMMA RisingOn ==
    ASSUME NEW s, NEW b \in Nat, NEW c \in Nat, b <= c, Rising(s, b)
    PROVE  Rising(s \o Ups(b, c), c)
<1>1. /\ Ups(b, c) \in Seq(Nat) /\ Len(Ups(b, c)) = c - b
      /\ \A i \in 1..(c - b) : Ups(b, c)[i] = b + i
  BY UpsFacts
<1>2. s \in Seq(Nat) /\ Len(s) \in Nat
  BY DEF Rising
<1> DEFINE n == Len(s) + Len(Ups(b, c))
           r == s \o Ups(b, c)
<1>3. /\ r \in Seq(Nat) /\ Len(r) = n
      /\ \A i \in 1..n : r[i] = IF i <= Len(s) THEN s[i] ELSE Ups(b, c)[i - Len(s)]
  BY <1>1, <1>2, ConcatProperties
<1>4. \A i \in 1..n : IF i <= Len(s) THEN r[i] = s[i] /\ r[i] <= b
                                     ELSE r[i] = b + (i - Len(s))
  <2> SUFFICES ASSUME NEW i \in 1..n
               PROVE  IF i <= Len(s) THEN r[i] = s[i] /\ r[i] <= b
                                     ELSE r[i] = b + (i - Len(s))
    OBVIOUS
  <2>1. CASE i <= Len(s)
    BY <1>2, <1>3, <2>1 DEF Rising
  <2>2. CASE ~(i <= Len(s))
    <3>1. i - Len(s) \in 1..(c - b)
      BY <1>1, <1>2, <2>2
    <3> QED
      BY <1>1, <1>3, <2>2, <3>1
  <2> QED
    BY <2>1, <2>2
<1>5. \A i \in 1..n : s \in Seq(Nat) /\ r[i] \in Nat
  BY <1>2, <1>3
<1> HIDE DEF r
<1>6. \A i \in 1..n : r[i] <= c
  BY <1>1, <1>2, <1>4, <1>5
<1>7. ASSUME NEW i \in 1..n, NEW j \in 1..n, i < j PROVE r[i] < r[j]
  <2>1. CASE j <= Len(s)
    BY <1>2, <1>4, <1>7, <2>1 DEF Rising
  <2>2. CASE ~(j <= Len(s))
    BY <1>2, <1>4, <1>5, <1>7, <2>2
  <2> QED
    BY <2>1, <2>2
<1> QED
  BY <1>3, <1>6, <1>7 DEF Rising, r

\* It does not move, and all its tasks are the app's.
LEMMA StaysPut ==
    ASSUME Common, Stays
    PROVE  /\ ~Handshake /\ ~Migrated /\ ~ConnectionCleaned /\ ~Clean /\ ~StreamCleaned
           /\ \A t \in Threads : CloseTask(t) \/ OnCleaned(t) => t = "app"
           /\ protocol = "init" => Reader = "app"
BY DEF Stays, Handshake, Migrated, ConnectionCleaned, Clean, StreamCleaned, Moving, CloseTask,
       OnCleaned, Task, Threads, Reader

\* A client that hangs up posts behind the tasks that are there.
LEMMA HangUpPosts ==
    ASSUME Common, HangUp, AttachedThread = "app", NEW ts, AppHas(ts)
    PROVE  Common' /\ AppHas(ts)' /\ tasks'["engine"] = tasks["engine"]
<1>1. /\ reading /\ protocol = "init" /\ reading' = FALSE /\ protocol' = protocol
      /\ tasks' = Post(tasks, "app", "close")
      /\ UNCHANGED <<script, read>>
  BY DEF HangUp, Readable, End
<1>2. /\ Post(tasks, "app", "close") \in [Threads -> Seq(Tasks)]
      /\ Post(tasks, "app", "close")["app"] = Append(tasks["app"], "close")
      /\ \A u \in Threads \ {"app"} : Post(tasks, "app", "close")[u] = tasks[u]
  BY PostFacts, "app" \in Threads, "close" \in Tasks DEF Common, Threads, Tasks
<1>3. tasks["app"] = ts
  BY <1>1 DEF AppHas
<1> QED
  BY <1>1, <1>2, <1>3 DEF Common, AppHas, Threads

\* The task that closes, and the end of the stream.
LEMMA CloseRuns ==
    ASSUME Common, CloseTask("app"), AppHas(<<>>)
    PROVE  Common' /\ AppHas(<<>>)' /\ tasks'["engine"] = tasks["engine"]
<1>1. tasks["app"] = <<"close">>
  BY DEF CloseTask, Task, AppHas
<1>2. tasks["app"] # <<>> /\ Tail(tasks["app"]) = <<>> /\ "app" \in Threads
  BY <1>1 DEF Threads
<1>3. /\ Taken("app") \in [Threads -> Seq(Tasks)]
      /\ Taken("app")["app"] = Tail(tasks["app"])
      /\ \A u \in Threads \ {"app"} : Taken("app")[u] = tasks[u]
  BY <1>2, TakenFacts DEF Common
<1> QED
  BY <1>2, <1>3 DEF CloseTask, Common, AppHas, Threads

\* The first of the tasks, whether or not the one that closes is behind them.
LEMMA FirstTaken ==
    ASSUME Common, tasks' = Taken("app"), UNCHANGED <<reading, protocol>>,
           NEW all, NEW ts, AppHas(all),
           all # <<>>, Tail(all) = ts,
           Append(all, "close") # <<>>, Tail(Append(all, "close")) = Append(ts, "close")
    PROVE  /\ tasks' \in [Threads -> Seq(Tasks)]
           /\ AppHas(ts)' /\ tasks'["engine"] = tasks["engine"]
<1>1. /\ tasks["app"] # <<>> /\ protocol = "init"
      /\ \/ Tail(tasks["app"]) = ts
         \/ Tail(tasks["app"]) = Append(ts, "close") /\ reading = FALSE
  BY DEF AppHas
<1>2. /\ Taken("app") \in [Threads -> Seq(Tasks)]
      /\ Taken("app")["app"] = Tail(tasks["app"])
      /\ \A u \in Threads \ {"app"} : Taken("app")[u] = tasks[u]
  BY <1>1, TakenFacts, "app" \in Threads DEF Common, Threads
<1> QED
  BY <1>1, <1>2 DEF AppHas, Threads

\* The first message: an engine in the app's loop gets it, or the app does.
LEMMA StayIdleStep == ASSUME ~Moves, Common, Idle, Next PROVE reset' \/ (Common' /\ StayPhase')
<1> USE DEF Threads
<1>1. own_loop' = own_loop /\ script' = script
  BY Fixed
<1>2. ASSUME NEW n \in 1..(Len(script) - read), Read(n)
      PROVE  reset' \/ (Common' /\ StayPhase')
  <2>1. n \in Nat /\ 0 < n /\ [i \in 1..n |-> read + i] = Ups(0, n)
    BY Piece DEF Idle, Common
  <2>2. Head(Ups(0, n)) = 1
    <3>1. Head(Ups(0, n)) = 0 + 1
      BY <2>1, UpsTail
    <3> QED
      BY <3>1
  <2>3. FirstMsg(Ups(0, n), <<>>, tasks)
    BY <1>2, <2>1 DEF Read, OnInputs, Idle
  <2>4. /\ read' = n /\ n \in 0..Len(script) /\ n >= 1
        /\ UNCHANGED <<stream, protocol>>
        /\ reading /\ protocol = "init"
    BY <1>2, <2>1, Piece DEF Read, Readable, Idle
  <2>5. script # <<>>
    BY <2>4
  <2>6. tasks["app"] = <<>> /\ tasks["engine"] = <<>>
    BY <2>4 DEF Idle
  <2>7. CASE script[1] = "cmd" /\ ~own_loop /\ UpgradeAtOnce(1, tasks)
    <3>1. EngineThread = "app" /\ "app" \in Threads /\ "on_cleaned" \in Tasks
             /\ "handle_in_msgs" \in Tasks
      BY <2>7 DEF EngineThread, Tasks
    <3>2. PICK first : first = Post(tasks, "app", "on_cleaned")
      OBVIOUS
    <3>3. /\ first \in [Threads -> Seq(Tasks)]
          /\ first["app"] = Append(tasks["app"], "on_cleaned")
          /\ first["engine"] = tasks["engine"]
      BY <3>2, PostApp, TaskNames DEF Common
    <3>4. /\ Post(first, "app", "handle_in_msgs") \in [Threads -> Seq(Tasks)]
          /\ Post(first, "app", "handle_in_msgs")["app"] = Append(first["app"], "handle_in_msgs")
          /\ \A u \in Threads \ {"app"} : Post(first, "app", "handle_in_msgs")[u] = first[u]
      BY <3>1, <3>3, PostFacts
    <3>5. tasks' = Post(first, "app", "handle_in_msgs")
      BY <2>7, <3>1, <3>2 DEF UpgradeAtOnce
    <3>6. tasks'["app"] = <<"on_cleaned", "handle_in_msgs">> /\ tasks'["engine"] = <<>>
      BY <2>6, <3>3, <3>4, <3>5
    <3>7. engine_msgs' = <<1>> /\ handled' = <<>>
      BY <2>7 DEF UpgradeAtOnce, Idle
    <3>8. AppHas(<<"on_cleaned", "handle_in_msgs">>)'
      BY <2>4, <3>6 DEF AppHas
    <3>9. Common'
      BY <1>1, <2>4, <3>4, <3>5 DEF Common
    <3>10. Upgraded' /\ read' >= 1
      BY <1>1, <2>4, <2>7, <3>6, <3>7, <3>8 DEF UpgradeAtOnce, Upgraded, WithEngine, Stays, Idle
    <3> QED
      BY <3>9, <3>10 DEF StayPhase
  <2>8. CASE script[1] = "unknown" /\ EngineNotFound(1, tasks)
    BY <2>8 DEF EngineNotFound
  <2>9. CASE script[1] = "other" /\ AppHandles(1, tasks)
    <3>1. handled' = <<1>> /\ tasks' = tasks
      BY <2>9 DEF AppHandles, Idle
    <3>2. AppHas(<<>>)'
      BY <2>6, <3>1 DEF AppHas
    <3>3. Common'
      BY <1>1, <2>4, <3>1 DEF Common
    <3>4. Dropped'
      BY <2>4, <2>6, <2>9, <3>1, <3>2 DEF AppHandles, Dropped, Stays, Idle
    <3> QED
      BY <3>3, <3>4 DEF StayPhase
  <2> QED
    BY <2>2, <2>3, <2>5, <2>7, <2>8, <2>9 DEF FirstMsg, Split, Moves
<1>3. CASE \E n \in 1..(Len(script) - read) : Read(n)
  BY <1>2, <1>3
<1> QED
  BY <1>3, IdleRest DEF StayPhase

\* The app's connection is never read again.
LEMMA DroppedStep == ASSUME Common, Dropped, Next PROVE Common' /\ Dropped'
<1> USE DEF Threads
<1>1. own_loop' = own_loop /\ script' = script /\ Stays /\ AppHas(<<>>)
  BY Fixed DEF Dropped
<1>2. ASSUME NEW n \in 1..(Len(script) - read), Read(n) PROVE Common' /\ Dropped'
  <2>1. read' = read + n /\ read + n \in 0..Len(script)
    BY <1>2, Piece DEF Read
  <2>2. LaterMsgs(Ups(read, read + n), in_msgs, tasks) /\ UNCHANGED <<stream, protocol>>
    BY <1>2, Piece DEF Read, OnInputs, Dropped
  <2>3. /\ UNCHANGED <<handled, tasks, reading, moving, migration_state, attach_to,
                       engine_msgs>>
    BY <2>2 DEF LaterMsgs, Dropped
  <2> QED
    BY <1>1, <2>1, <2>2, <2>3 DEF Common, Dropped, Stays, AppHas
<1>3. CASE HangUp
  <2>1. Common' /\ AppHas(<<>>)' /\ tasks'["engine"] = tasks["engine"]
    BY <1>1, <1>3, HangUpPosts DEF AttachedThread, Dropped
  <2> QED
    BY <1>3, <2>1 DEF HangUp, End, Dropped, Stays
<1>4. CASE StreamClosed
  BY <1>1, <1>4 DEF StreamClosed, Common, Dropped, Stays, AppHas
<1>5. ~HandleInMsgs
  BY <1>1 DEF HandleInMsgs, Task, EngineThread, Stays, AppHas
<1>6. ASSUME NEW t \in Threads, CloseTask(t) PROVE Common' /\ Dropped'
  <2>1. CloseTask("app")
    BY <1>1, <1>6, StaysPut
  <2>2. Common' /\ AppHas(<<>>)' /\ tasks'["engine"] = tasks["engine"]
    BY <1>1, <2>1, CloseRuns
  <2> QED
    BY <2>1, <2>2 DEF CloseTask, Common, Dropped, Stays
<1>7. ASSUME NEW t \in Threads, OnCleaned(t) PROVE FALSE
  BY <1>1, <1>7 DEF OnCleaned, Task, Stays, AppHas
<1> QED
  BY <1>1, <1>2, <1>3, <1>4, <1>5, <1>6, <1>7, StaysPut, Steps

\* While its tasks are there, what is read meets an assertion; they are taken in turn.
LEMMA WithEngineStep ==
    ASSUME Common, read >= 1, Next, Upgraded \/ Cleared
    PROVE  Common' /\ StayPhase'
<1> USE DEF Threads
<1>1. /\ own_loop' = own_loop /\ script' = script /\ Stays /\ WithEngine
      /\ AttachedThread = "app" /\ EngineThread = "app"
  BY Fixed DEF Upgraded, Cleared, WithEngine, AttachedThread, EngineThread
<1>2. PICK ts \in {<<"on_cleaned", "handle_in_msgs">>, <<"handle_in_msgs">>} :
         /\ AppHas(ts)
         /\ ts = <<"handle_in_msgs">> => in_msgs = <<>>
         /\ ts = <<"on_cleaned", "handle_in_msgs">> => Upgraded
         /\ ts = <<"handle_in_msgs">> => Cleared
  <2>1. CASE Upgraded
    BY <2>1 DEF Upgraded
  <2>2. CASE Cleared
    BY <2>2 DEF Cleared
  <2> QED
    BY <2>1, <2>2
<1>3. protocol = "init"
  BY <1>2 DEF AppHas
<1>4. ASSUME Common', WithEngine', AppHas(ts)', read' >= 1, in_msgs' = in_msgs
      PROVE  Common' /\ StayPhase'
  BY <1>2, <1>4 DEF StayPhase, Upgraded, Cleared
<1>5. ASSUME NEW n \in 1..(Len(script) - read), Read(n) PROVE Common' /\ StayPhase'
  <2>1. read' = read + n /\ read + n \in 0..Len(script) /\ read + n >= 1
    BY <1>5, Piece DEF Read
  <2>2. LaterMsgs(Ups(read, read + n), in_msgs, tasks) /\ UNCHANGED <<stream, protocol>>
    BY <1>1, <1>5, Piece DEF Read, OnInputs, WithEngine
  <2>3. UNCHANGED <<handled, tasks, reading, moving, migration_state, attach_to, engine_msgs,
                    in_msgs>>
    BY <1>1, <2>2 DEF LaterMsgs, WithEngine
  <2>4. Common'
    BY <1>1, <2>1, <2>2, <2>3 DEF Common
  <2>5. WithEngine' /\ AppHas(ts)'
    BY <1>1, <1>2, <2>2, <2>3 DEF WithEngine, Stays, AppHas
  <2> QED
    BY <1>4, <2>1, <2>3, <2>4, <2>5
<1>6. CASE HangUp
  <2>1. Common' /\ AppHas(ts)' /\ tasks'["engine"] = tasks["engine"]
    BY <1>1, <1>2, <1>6, HangUpPosts
  <2>2. WithEngine'
    BY <1>1, <1>6, <2>1 DEF HangUp, End, WithEngine, Stays
  <2> QED
    BY <1>4, <1>6, <2>1, <2>2 DEF HangUp
<1>7. ~StreamClosed
  BY <1>3 DEF StreamClosed
<1>8. CASE HandleInMsgs
  <2>1. ts = <<"handle_in_msgs">>
    BY <1>1, <1>2, <1>8 DEF HandleInMsgs, Task, AppHas
  <2>2. /\ tasks' \in [Threads -> Seq(Tasks)]
        /\ AppHas(<<>>)' /\ tasks'["engine"] = tasks["engine"]
    <3>1. tasks' = Taken("app") /\ UNCHANGED <<reading, protocol>>
      BY <1>1, <1>8 DEF HandleInMsgs
    <3>2. AppHas(<<"handle_in_msgs">>)
      BY <1>2, <2>1
    <3>3. /\ <<"handle_in_msgs">> # <<>>
          /\ Tail(<<"handle_in_msgs">>) = <<>>
          /\ Append(<<"handle_in_msgs">>, "close") # <<>>
          /\ Tail(Append(<<"handle_in_msgs">>, "close")) = Append(<<>>, "close")
      BY OneTask
    <3> QED
      BY <3>1, <3>2, <3>3, FirstTaken
  <2>3. handled' = <<1>>
    BY <1>1, <1>8 DEF HandleInMsgs, WithEngine
  <2>4. read' = read /\ read \in Nat
    BY <1>8 DEF HandleInMsgs, Common
  <2>5. Rising(handled', read')
    BY <2>3, <2>4 DEF Rising
  <2>6. Common'
    BY <1>1, <1>8, <2>2 DEF HandleInMsgs, Common
  <2>7. Shared'
    BY <1>1, <1>2, <1>8, <2>1, <2>2, <2>5 DEF HandleInMsgs, WithEngine, Stays, Shared
  <2> QED
    BY <2>6, <2>7 DEF StayPhase
<1>9. ASSUME NEW t \in Threads, CloseTask(t) PROVE FALSE
  <2>1. CloseTask("app")
    BY <1>1, <1>9, StaysPut
  <2> QED
    BY <1>2, <2>1 DEF CloseTask, Task, AppHas
<1>10. ASSUME NEW t \in Threads, OnCleaned(t) PROVE Common' /\ StayPhase'
  <2>1. OnCleaned("app")
    BY <1>1, <1>10, StaysPut
  <2>2. ts = <<"on_cleaned", "handle_in_msgs">>
    BY <1>2, <2>1 DEF OnCleaned, Task, AppHas
  <2>3. TakeThem("app") /\ UNCHANGED <<read, stream, protocol>>
    BY <2>1 DEF OnCleaned
  <2>4. /\ tasks' = Taken("app") /\ in_msgs' = <<>>
        /\ UNCHANGED <<handled, reading, moving, migration_state, attach_to, engine_msgs>>
    <3>1. CASE in_msgs = <<>>
      BY <2>3, <3>1 DEF TakeThem, Ignore
    <3>2. CASE in_msgs # <<>>
      <4>1. LaterMsgs(in_msgs, <<>>, Taken("app"))
        BY <1>1, <1>3, <2>3, <3>2 DEF TakeThem, OnInputs, WithEngine
      <4> QED
        BY <1>1, <4>1 DEF LaterMsgs, WithEngine
    <3> QED
      BY <3>1, <3>2
  <2>5. /\ tasks' \in [Threads -> Seq(Tasks)]
        /\ AppHas(<<"handle_in_msgs">>)' /\ tasks'["engine"] = tasks["engine"]
    <3> DEFINE all == <<"on_cleaned", "handle_in_msgs">>
    <3>1. /\ AppHas(all) /\ all # <<>> /\ Tail(all) = <<"handle_in_msgs">>
          /\ Append(all, "close") # <<>>
          /\ Tail(Append(all, "close")) = Append(<<"handle_in_msgs">>, "close")
      BY <1>2, <2>2
    <3>2. tasks' = Taken("app") /\ UNCHANGED <<reading, protocol>>
      BY <2>3, <2>4
    <3> HIDE DEF all
    <3> QED
      BY <3>1, <3>2, FirstTaken
  <2>6. Common'
    BY <1>1, <2>3, <2>5 DEF Common
  <2>7. Cleared' /\ read' >= 1
    BY <1>1, <2>3, <2>4, <2>5 DEF Cleared, WithEngine, Stays
  <2> QED
    BY <2>6, <2>7 DEF StayPhase
<1> QED
  BY <1>1, <1>5, <1>6, <1>7, <1>8, <1>9, <1>10, StaysPut, Steps

\* From then on the remote takes whatever is read.
LEMMA SharedStep == ASSUME Common, Shared, Next PROVE Common' /\ Shared'
<1> USE DEF Threads
<1>1. /\ own_loop' = own_loop /\ script' = script /\ Stays /\ AppHas(<<>>)
      /\ AttachedThread = "app" /\ EngineThread = "app"
  BY Fixed DEF Shared, AttachedThread, EngineThread
<1>2. ASSUME NEW n \in 1..(Len(script) - read), Read(n) PROVE Common' /\ Shared'
  <2>1. /\ [i \in 1..n |-> read + i] = Ups(read, read + n)
        /\ read \in Nat /\ read + n \in Nat /\ read <= read + n /\ read + n \in 0..Len(script)
    BY Piece DEF Common
  <2>2. LaterMsgs(Ups(read, read + n), in_msgs, tasks)
    BY <1>2, <2>1 DEF Read, OnInputs, Shared
  <2>3. handled' = handled \o Ups(read, read + n)
    BY <2>2 DEF LaterMsgs, Shared
  <2>4. read' = read + n /\ UNCHANGED <<stream, protocol>>
    BY <1>2 DEF Read
  <2>5. Rising(handled \o Ups(read, read + n), read + n)
    BY <2>1, RisingOn DEF Shared
  <2>6. Rising(handled', read')
    BY <2>3, <2>4, <2>5
  <2>7. UNCHANGED <<in_msgs, tasks, reading, moving, migration_state, attach_to, engine_msgs>>
    BY <2>2 DEF LaterMsgs
  <2>8. Common'
    BY <1>1, <2>1, <2>4, <2>7 DEF Common
  <2>9. Shared'
    BY <1>1, <2>4, <2>6, <2>7 DEF Shared, Stays, AppHas
  <2> QED
    BY <2>8, <2>9
<1>3. CASE HangUp
  <2>1. Common' /\ AppHas(<<>>)' /\ tasks'["engine"] = tasks["engine"]
    BY <1>1, <1>3, HangUpPosts
  <2>2. UNCHANGED <<handled, read>>
    BY <1>3 DEF HangUp
  <2>3. Rising(handled', read')
    BY <2>2 DEF Shared
  <2> QED
    BY <1>1, <1>3, <2>1, <2>3 DEF HangUp, End, Shared, Stays
<1>4. CASE StreamClosed
  <2>1. Rising(handled', read')
    BY <1>4 DEF StreamClosed, Shared
  <2> QED
    BY <1>1, <1>4, <2>1 DEF StreamClosed, Common, Shared, Stays, AppHas
<1>5. ~HandleInMsgs
  BY <1>1 DEF HandleInMsgs, Task, AppHas
<1>6. ASSUME NEW t \in Threads, CloseTask(t) PROVE Common' /\ Shared'
  <2>1. CloseTask("app")
    BY <1>1, <1>6, StaysPut
  <2>2. Common' /\ AppHas(<<>>)' /\ tasks'["engine"] = tasks["engine"]
    BY <1>1, <2>1, CloseRuns
  <2>3. Rising(handled', read')
    BY <2>1 DEF CloseTask, Shared
  <2> QED
    BY <1>1, <2>1, <2>2, <2>3 DEF CloseTask, Common, Shared, Stays
<1>7. ASSUME NEW t \in Threads, OnCleaned(t) PROVE FALSE
  BY <1>1, <1>7 DEF OnCleaned, Task, Stays, AppHas
<1> QED
  BY <1>1, <1>2, <1>3, <1>4, <1>5, <1>6, <1>7, StaysPut, Steps

-----------------------------------------------------------------------------
(* The theorems.                                                           *)

LEMMA InitEstablishes == ASSUME Init PROVE MInv
<1> SUFFICES Kept /\ Idle
  BY DEF MInv, Phase
<1>1. script \in Seq(Kinds) /\ read \in 0..Len(script)
  BY MigrationAssumption DEF Init
<1> QED
  BY <1>1 DEF Init, Kept, Common, Idle, Threads

LEMMA StepPreserves == ASSUME MInv, [Next]_vars PROVE MInv'
<1>1. CASE UNCHANGED vars
  BY <1>1 DEF vars, MInv, Moves, Kept, Common, Phase, Idle, Shaking, Waiting, Moved, Attached,
              Linked, Served
<1>2. CASE Next
  <2>1. Moves' <=> Moves
    BY <1>2, Fixed DEF Moves
  <2> SUFFICES ASSUME Moves PROVE Kept' /\ Phase'
    BY <2>1 DEF MInv
  <2>2. Kept /\ (Idle \/ Shaking \/ Attached \/ Linked \/ Served)
    BY DEF MInv, Phase
  <2> QED
    BY <1>2, <2>2, IdleStep, ShakingStep, AttachedStep, LinkedStep, ServedStep
<1> QED
  BY <1>1, <1>2

LEMMA Invariant == Spec => []MInv
BY InitEstablishes, StepPreserves, PTL DEF Spec

\* Of a connection that moves, no message meets an assertion (connection.c:340, 434,
\* protocol.c), and when the task that closes it has run, all that was read has arrived.
THEOREM MigrationLosesNothing == Spec => []NothingIsLost
<1>1. ASSUME MInv PROVE NothingIsLost
  <2> SUFFICES ASSUME Moves, protocol # "init" PROVE Len(handled) = read
    BY <1>1 DEF NothingIsLost, MInv, Kept, Common
  <2>1. Common /\ Phase /\ read \in Nat
    BY <1>1 DEF MInv, Kept, Common
  <2>2. CASE Idle
    BY <2>2 DEF Idle
  <2>3. CASE Shaking \/ Attached \/ Linked
    BY <2>3 DEF Shaking, Attached, Linked, Moved
  <2>4. CASE Served
    <3>1. Len(Ups(0, read)) = read - 0
      BY <2>1, UpsFacts
    <3> QED
      BY <2>1, <2>4, <3>1 DEF Served
  <2> QED
    BY <2>1, <2>2, <2>3, <2>4 DEF Phase
<1> QED
  BY <1>1, Invariant, PTL

\* What has arrived of a connection that moves is the beginning of what the client sent:
\* "all the messages in the original order" (connection/migration.c:117).
ArrivedInOrder == Moves => handled = Ups(0, Len(handled))

THEOREM MigrationKeepsOrder == Spec => []ArrivedInOrder
<1>1. ASSUME MInv PROVE ArrivedInOrder
  <2> SUFFICES ASSUME Moves PROVE handled = Ups(0, Len(handled))
    BY DEF ArrivedInOrder
  <2>1. Common /\ Phase /\ read \in Nat
    BY <1>1 DEF MInv, Kept, Common
  <2>2. CASE Idle \/ Shaking \/ Attached
    BY <2>2, UpsEmpty DEF Idle, Shaking, Attached
  <2>3. CASE Linked
    BY <2>3, UpsOne DEF Linked
  <2>4. CASE Served
    <3>1. Len(Ups(0, read)) = read - 0
      BY <2>1, UpsFacts
    <3> QED
      BY <2>1, <2>4, <3>1 DEF Served
  <2> QED
    BY <2>1, <2>2, <2>3, <2>4 DEF Phase
<1> QED
  BY <1>1, Invariant, PTL

-----------------------------------------------------------------------------
LEMMA StayInit == ASSUME Init PROVE SInv
<1>1. script \in Seq(Kinds) /\ read \in 0..Len(script)
  BY MigrationAssumption DEF Init
<1> QED
  BY <1>1 DEF Init, SInv, StayPhase, Common, Idle, Threads

\* A reset is never taken back.
LEMMA ResetStays == ASSUME Next, reset PROVE reset'
<1>1. ASSUME NEW msgs, NEW kept, NEW queues, OnInputs(msgs, kept, queues) PROVE reset'
  BY <1>1 DEF OnInputs, FirstMsg, LaterMsgs, Migrate, UpgradeAtOnce, EngineNotFound, AppHandles
<1>2. ASSUME NEW n \in 1..(Len(script) - read), Read(n) PROVE reset'
  BY <1>1, <1>2 DEF Read
<1>3. ASSUME NEW t \in Threads, OnCleaned(t) PROVE reset'
  BY <1>1, <1>3 DEF OnCleaned, TakeThem, Ignore
<1>4. CASE ~(\E n \in 1..(Len(script) - read) : Read(n))
           /\ ~\E t \in Threads : OnCleaned(t)
  BY <1>4, Steps DEF HangUp, Handshake, Migrated, ConnectionCleaned, Clean, StreamCleaned,
     StreamClosed, HandleInMsgs, CloseTask
<1> QED
  BY <1>2, <1>3, <1>4

LEMMA StayStep == ASSUME SInv, [Next]_vars PROVE SInv'
<1>1. CASE UNCHANGED vars
  BY <1>1 DEF vars, SInv, Moves, Common, StayPhase, Idle, Stays, AppHas, Dropped, WithEngine,
              Upgraded, Cleared, Shared
<1>2. CASE Next
  <2>1. Moves' <=> Moves
    BY <1>2, Fixed DEF Moves
  <2> SUFFICES ASSUME ~Moves, ~reset, ~reset' PROVE Common' /\ StayPhase'
    BY <1>2, <2>1, ResetStays DEF SInv
  <2>2. Common /\ (Idle \/ Dropped \/ (Upgraded /\ read >= 1) \/ (Cleared /\ read >= 1) \/ Shared)
    BY DEF SInv, StayPhase
  <2>3. CASE Idle
    BY <1>2, <2>2, <2>3, StayIdleStep
  <2>4. CASE Dropped
    BY <1>2, <2>2, <2>4, DroppedStep DEF StayPhase
  <2>5. CASE (Upgraded \/ Cleared) /\ read >= 1
    BY <1>2, <2>2, <2>5, WithEngineStep
  <2>6. CASE Shared
    BY <1>2, <2>2, <2>6, SharedStep DEF StayPhase
  <2> QED
    BY <2>2, <2>3, <2>4, <2>5, <2>6
<1> QED
  BY <1>1, <1>2

LEMMA StayInvariant == Spec => []SInv
BY StayInit, StayStep, PTL DEF Spec

LEMMA UpsRise == ASSUME NEW b \in Nat PROVE Rising(Ups(0, b), b)
<1>1. /\ Ups(0, b) \in Seq(Nat) /\ Len(Ups(0, b)) = b - 0
      /\ \A i \in 1..(b - 0) : Ups(0, b)[i] = 0 + i
  <2>1. 0 \in Nat /\ 0 <= b
    OBVIOUS
  <2> QED
    BY <2>1, UpsFacts
<1> QED
  BY <1>1 DEF Rising

\* Wherever the engine runs and whatever the client sends, the messages of a connection are
\* handled in their order, until one finds no engine (connection/migration.c:95-117).
THEOREM MessagesStayInOrder == Spec => []InOrder
<1>1. ASSUME MInv, SInv PROVE InOrder
  <2> SUFFICES ASSUME ~reset PROVE \E b \in Nat : Rising(handled, b)
    BY DEF InOrder, Rising
  <2>1. Rising(<<>>, 0) /\ Rising(<<1>>, 1)
    BY DEF Rising
  <2>2. CASE Moves
    <3>1. Kept /\ Phase /\ read \in Nat
      BY <1>1, <2>2 DEF MInv, Kept, Common
    <3> QED
      BY <2>1, <3>1, UpsRise DEF Phase, Idle, Shaking, Attached, Linked, Served
  <2>3. CASE ~Moves
    <3>1. Common /\ StayPhase /\ read \in Nat
      BY <1>1, <2>3 DEF SInv, Common
    <3> QED
      BY <2>1, <3>1 DEF StayPhase, Idle, Dropped, Upgraded, Cleared, WithEngine, Shared
  <2> QED
    BY <2>2, <2>3
<1> QED
  BY <1>1, Invariant, StayInvariant, PTL

\* When the task that closes the protocol has run, no other task about the connection is
\* left, and it is not moving; until a message finds no engine (protocol/close.c).
THEOREM CloseComesLast == Spec => []ClosesLast
<1>1. ASSUME MInv, SInv PROVE ClosesLast
  <2> SUFFICES ASSUME protocol # "init", ~reset
               PROVE  /\ tasks["app"] = <<>> /\ tasks["engine"] = <<>>
                      /\ in_msgs = <<>> \/ migration_state = "first_msg"
                      /\ engine_msgs = <<>>
                      /\ moving = 0
    BY DEF ClosesLast, Threads
  <2>1. CASE Moves
    <3>1. Phase
      BY <1>1, <2>1 DEF MInv
    <3> QED
      BY <3>1 DEF Phase, Idle, Shaking, Moved, Attached, Linked, Served
  <2>2. CASE ~Moves
    <3>1. StayPhase
      BY <1>1, <2>2 DEF SInv
    <3> QED
      BY <3>1 DEF StayPhase, Idle, Stays, AppHas, Dropped, Upgraded, Cleared, WithEngine, Shared
  <2> QED
    BY <2>1, <2>2
<1> QED
  BY <1>1, Invariant, StayInvariant, PTL

-----------------------------------------------------------------------------
(* Types.                                                                  *)

Msg == 1..Len(script)

\* Whoever moves carries a command.
Carries == moving # 0 => carried # 0

\* What a message may do, of whatever kind it is.
LEMMA InputTyped ==
    ASSUME TypeOK, NEW msgs \in Seq(Msg), msgs # <<>>, NEW kept \in Seq(Msg),
           NEW queues \in [Threads -> Seq(Tasks)], OnInputs(msgs, kept, queues)
    PROVE  /\ reading' \in BOOLEAN /\ migration_state' \in {"init", "first_msg", "done"}
           /\ attach_to' \in {"app", "engine", "remote"}
           /\ in_msgs' \in Seq(Msg) /\ moving' \in 0..7 /\ carried' \in 0..Len(script)
           /\ engine_msgs' \in Seq(Msg) /\ tasks' \in [Threads -> Seq(Tasks)]
           /\ handled' \in Seq(Msg) /\ lost' \subseteq Msg /\ reset' \in BOOLEAN
           /\ Carries => Carries'
<1>1. Head(msgs) \in Msg /\ Tail(msgs) \in Seq(Msg)
  BY HeadTailProperties
<1>2. /\ engine_msgs \in Seq(Msg) /\ handled \in Seq(Msg) /\ lost \subseteq Msg
      /\ Len(script) \in Nat
  BY DEF TypeOK, Msg
<1>3. \A m \in Msg : Append(engine_msgs, m) \in Seq(Msg) /\ Append(handled, m) \in Seq(Msg)
  BY <1>2, AppendProperties
<1>4. ASSUME NEW t \in Threads, NEW task \in Tasks, NEW qs \in [Threads -> Seq(Tasks)]
      PROVE  Post(qs, t, task) \in [Threads -> Seq(Tasks)]
  BY PostFacts
<1>5. AttachedThread \in Threads /\ EngineThread \in Threads
  BY DEF AttachedThread, EngineThread, Threads
<1>6. "on_cleaned" \in Tasks /\ "handle_in_msgs" \in Tasks
  BY DEF Tasks
<1>7. CASE FirstMsg(msgs, kept, queues)
  <2>1. in_msgs' \in Seq(Msg) /\ lost' \subseteq Msg
    BY <1>1, <1>2, <1>7, ConcatProperties DEF FirstMsg, Split
  <2>2. PICK m \in Msg : \/ Migrate(m, queues) \/ UpgradeAtOnce(m, queues)
                         \/ EngineNotFound(m, queues) \/ AppHandles(m, queues)
    BY <1>1, <1>7 DEF FirstMsg, Split
  <2>3. CASE Migrate(m, queues)
    <3>1. carried' \in 0..Len(script) /\ carried' # 0 /\ moving' \in 0..7
      BY <1>2, <2>3 DEF Migrate, Msg
    <3> QED
      BY <1>2, <2>1, <2>3, <3>1 DEF Migrate, TypeOK, Carries
  <2>4. CASE UpgradeAtOnce(m, queues)
    <3>1. Post(Post(queues, EngineThread, "on_cleaned"), EngineThread, "handle_in_msgs")
              \in [Threads -> Seq(Tasks)]
      BY <1>4, <1>5, <1>6
    <3>2. engine_msgs' \in Seq(Msg) /\ tasks' \in [Threads -> Seq(Tasks)]
      BY <1>3, <2>4, <3>1 DEF UpgradeAtOnce
    <3> QED
      BY <1>2, <2>1, <2>4, <3>2 DEF UpgradeAtOnce, TypeOK, Carries
  <2>5. CASE EngineNotFound(m, queues)
    <3>1. handled' \in Seq(Msg) /\ tasks' \in [Threads -> Seq(Tasks)]
      BY <1>3, <1>4, <1>5, <1>6, <2>5 DEF EngineNotFound
    <3> QED
      BY <1>2, <2>1, <2>5, <3>1 DEF EngineNotFound, TypeOK, Carries
  <2>6. CASE AppHandles(m, queues)
    <3>1. handled' \in Seq(Msg)
      BY <1>3, <2>6 DEF AppHandles
    <3> QED
      BY <1>2, <2>1, <2>6, <3>1 DEF AppHandles, TypeOK, Carries
  <2> QED
    BY <2>2, <2>3, <2>4, <2>5, <2>6
<1>8. CASE LaterMsgs(msgs, kept, queues)
  <2>1. handled \o msgs \in Seq(Msg)
    BY <1>2, ConcatProperties
  <2>2. Elements(msgs) \subseteq Msg
    BY DEF Elements
  <2>3. handled' \in Seq(Msg) /\ lost' \subseteq Msg
    BY <1>2, <1>8, <2>1, <2>2 DEF LaterMsgs
  <2> QED
    BY <1>2, <1>8, <2>3 DEF LaterMsgs, TypeOK, Carries
<1> QED
  BY <1>7, <1>8 DEF OnInputs

LEMMA ReadTyped ==
    ASSUME TypeOK, NEW n \in 1..(Len(script) - read), Read(n)
    PROVE  TypeOK' /\ (Carries => Carries')
<1> DEFINE msgs == [i \in 1..n |-> read + i]
<1>1. n \in Nat /\ n >= 1 /\ read + n \in 0..Len(script) /\ script' = script
  BY DEF TypeOK, Read
<1>2. msgs \in Seq(Msg) /\ msgs # <<>>
  <2>1. msgs \in [1..n -> Msg]
    BY <1>1 DEF Msg, TypeOK
  <2>2. msgs \in Seq(Msg) /\ Len(msgs) = n
    BY <1>1, <2>1
  <2> HIDE DEF msgs
  <2> QED
    BY <1>1, <2>2
<1>3. OnInputs(msgs, in_msgs, tasks)
  BY DEF Read
<1> HIDE DEF msgs
<1>4. in_msgs \in Seq(Msg) /\ tasks \in [Threads -> Seq(Tasks)]
  BY DEF TypeOK, Msg
<1> QED
  BY <1>1, <1>2, <1>3, <1>4, InputTyped DEF Read, TypeOK, Msg

LEMMA TaskTyped ==
    ASSUME TypeOK, NEW t \in Threads, tasks[t] # <<>>
    PROVE  Taken(t) \in [Threads -> Seq(Tasks)]
BY TakenFacts DEF TypeOK

LEMMA OnCleanedTyped ==
    ASSUME TypeOK, NEW t \in Threads, OnCleaned(t)
    PROVE  TypeOK' /\ (Carries => Carries')
<1>1. /\ tasks[t] # <<>> /\ TakeThem(t)
      /\ UNCHANGED <<own_loop, script, read, hung_up, stream, is_cleaned, protocol>>
  BY DEF OnCleaned, Task
<1>2. Taken(t) \in [Threads -> Seq(Tasks)]
  BY <1>1, TaskTyped
<1>3. <<>> \in Seq(Msg) /\ in_msgs \in Seq(Msg)
  BY DEF TypeOK, Msg
<1>4. CASE Ignore(t)
  BY <1>1, <1>2, <1>3, <1>4 DEF Ignore, TypeOK, Msg, Carries
<1>5. CASE in_msgs # <<>> /\ OnInputs(in_msgs, <<>>, Taken(t))
  BY <1>1, <1>2, <1>3, <1>5, InputTyped DEF TypeOK, Msg
<1> QED
  BY <1>1, <1>4, <1>5 DEF TakeThem

\* Every variable keeps its type, whatever is read and whoever runs: a connection that moves
\* carries a command, so that the engine has one to queue (engine/internal/migration.c:73).
THEOREM TypesCorrect == Spec => []TypeOK
<1>1. ASSUME Init PROVE TypeOK /\ Carries
  <2>1. script \in Seq(Kinds) /\ own_loop \in BOOLEAN
    BY <1>1, MigrationAssumption DEF Init
  <2>2. /\ read \in 0..Len(script) /\ carried \in 0..Len(script)
        /\ <<>> \in Seq(1..Len(script)) /\ {} \subseteq 1..Len(script)
    BY <1>1, <2>1 DEF Init
  <2>3. tasks \in [Threads -> Seq(Tasks)]
    BY <1>1 DEF Init
  <2>4. hung_up \in BOOLEAN /\ reading \in BOOLEAN /\ is_cleaned \in BOOLEAN /\ reset \in BOOLEAN
    BY <1>1, Zenon DEF Init
  <2>5. /\ in_msgs \in Seq(1..Len(script)) /\ engine_msgs \in Seq(1..Len(script))
        /\ handled \in Seq(1..Len(script)) /\ lost \subseteq 1..Len(script)
    BY <1>1, <2>2, Zenon DEF Init
  <2>6. /\ stream \in {"app", "cleaning", "none", "engine"}
        /\ migration_state \in {"init", "first_msg", "done"}
        /\ attach_to \in {"app", "engine", "remote"}
        /\ protocol \in {"init", "closing", "closed"}
        /\ moving \in 0..7 /\ Carries
    BY <1>1 DEF Init, Carries
  <2> QED
    BY <2>1, <2>2, <2>3, <2>4, <2>5, <2>6, Zenon DEF TypeOK
<1>2. ASSUME TypeOK, Carries, [Next]_vars PROVE TypeOK' /\ Carries'
  <2>1. CASE UNCHANGED vars
    BY <1>2, <2>1 DEF vars, TypeOK, Carries
  <2>2. CASE HangUp
    <3>1. AttachedThread \in Threads /\ "close" \in Tasks
      BY DEF AttachedThread, EngineThread, Threads, Tasks
    <3>2. Post(tasks, AttachedThread, "close") \in [Threads -> Seq(Tasks)]
      BY <1>2, <3>1, PostFacts DEF TypeOK
    <3>3. tasks' \in [Threads -> Seq(Tasks)] /\ reading' \in BOOLEAN /\ hung_up' \in BOOLEAN
      BY <2>2, <3>2, Zenon DEF HangUp, End
    <3>4. UNCHANGED <<own_loop, script, read, stream, migration_state, attach_to, in_msgs, moving,
                      carried, is_cleaned, engine_msgs, protocol, handled, lost, reset>>
      BY <2>2, Zenon DEF HangUp, End
    <3> QED
      BY <1>2, <3>3, <3>4, SMTT(30) DEF TypeOK, Carries
  <2>3. CASE Handshake
    <3>1. moving' \in 0..7
      BY <1>2, <2>3 DEF Handshake, LastStep, TypeOK
    <3> QED
      BY <1>2, <2>3, <3>1 DEF Handshake, Moving, TypeOK, Carries
  <2>4. CASE Migrated
    <3>1. "app" \in Threads /\ "clean" \in Tasks
      BY DEF Threads, Tasks
    <3>2. Post(tasks, "app", "clean") \in [Threads -> Seq(Tasks)]
      BY <1>2, <3>1, PostFacts DEF TypeOK
    <3> QED
      BY <1>2, <2>4, <3>2 DEF Migrated, Moving, TypeOK, Carries
  <2>5. CASE Clean
    <3>1. Taken("app") \in [Threads -> Seq(Tasks)]
      BY <1>2, <2>5, TaskTyped, "app" \in Threads DEF Clean, Task, Threads
    <3> QED
      BY <1>2, <2>5, <3>1 DEF Clean, TypeOK, Carries
  <2>6. CASE ConnectionCleaned
    <3>1. /\ "engine" \in Threads /\ "handle_in_msgs" \in Tasks /\ "on_cleaned" \in Tasks
          /\ tasks \in [Threads -> Seq(Tasks)]
      BY <1>2 DEF Threads, Tasks, TypeOK
    <3>2. ASSUME NEW task \in Tasks, NEW qs \in [Threads -> Seq(Tasks)]
          PROVE  Post(qs, "engine", task) \in [Threads -> Seq(Tasks)]
      BY <3>1, PostFacts
    <3>3. tasks' \in [Threads -> Seq(Tasks)]
      BY <2>6, <3>1, <3>2 DEF ConnectionCleaned, AppendThenUpgrade
    <3>4. carried \in Msg /\ engine_msgs \in Seq(Msg)
      BY <1>2, <2>6 DEF ConnectionCleaned, Moving, TypeOK, Carries, Msg
    <3>5. engine_msgs' \in Seq(Msg)
      BY <2>6, <3>4, AppendProperties DEF ConnectionCleaned
    <3> QED
      BY <1>2, <2>6, <3>3, <3>5 DEF ConnectionCleaned, TypeOK, Carries, Msg
  <2>7. CASE HandleInMsgs
    <3>1. handled \in Seq(Msg) /\ engine_msgs \in Seq(Msg) /\ EngineThread \in Threads
      BY <1>2 DEF TypeOK, Msg, EngineThread, Threads
    <3>2. handled \o engine_msgs \in Seq(Msg)
      BY <3>1, ConcatProperties
    <3>3. Taken(EngineThread) \in [Threads -> Seq(Tasks)]
      BY <1>2, <2>7, <3>1, TaskTyped DEF HandleInMsgs, Task
    <3> QED
      BY <1>2, <2>7, <3>2, <3>3 DEF HandleInMsgs, TypeOK, Carries, Msg
  <2>8. ASSUME NEW t \in Threads, CloseTask(t) PROVE TypeOK' /\ Carries'
    <3>1. Taken(t) \in [Threads -> Seq(Tasks)]
      BY <1>2, <2>8, TaskTyped DEF CloseTask, Task
    <3>2. protocol' \in {"init", "closing", "closed"} /\ reading' \in BOOLEAN
      BY <1>2, <2>8, Zenon DEF CloseTask, TypeOK
    <3>3. /\ tasks' \in [Threads -> Seq(Tasks)]
          /\ UNCHANGED <<own_loop, script, read, hung_up, stream, migration_state, attach_to,
                         in_msgs, moving, carried, is_cleaned, engine_msgs, handled, lost, reset>>
      BY <2>8, <3>1, Zenon DEF CloseTask
    <3>4. Carries'
      BY <1>2, <3>3 DEF Carries
    <3>5. /\ own_loop' \in BOOLEAN /\ hung_up' \in BOOLEAN /\ is_cleaned' \in BOOLEAN
          /\ reset' \in BOOLEAN
      BY <1>2, <3>3, Zenon DEF TypeOK
    <3>6. /\ script' \in Seq(Kinds) /\ read' \in 0..Len(script')
          /\ stream' \in {"app", "cleaning", "none", "engine"}
          /\ migration_state' \in {"init", "first_msg", "done"}
          /\ attach_to' \in {"app", "engine", "remote"}
          /\ moving' \in 0..7 /\ carried' \in 0..Len(script')
      BY <1>2, <3>3, Zenon DEF TypeOK
    <3>7. /\ in_msgs' \in Seq(1..Len(script')) /\ engine_msgs' \in Seq(1..Len(script'))
          /\ handled' \in Seq(1..Len(script')) /\ lost' \subseteq 1..Len(script')
      BY <1>2, <3>3, Zenon DEF TypeOK
    <3> QED
      BY <3>2, <3>3, <3>4, <3>5, <3>6, <3>7, Zenon DEF TypeOK
  <2>9. CASE StreamCleaned \/ StreamClosed
    <3>1. CASE StreamCleaned
      BY <1>2, <3>1, SMTT(30) DEF StreamCleaned, TypeOK, Carries
    <3>2. CASE StreamClosed
      BY <1>2, <3>2, SMTT(30) DEF StreamClosed, TypeOK, Carries
    <3> QED
      BY <2>9, <3>1, <3>2
  <2> QED
    BY <1>2, <2>1, <2>2, <2>3, <2>4, <2>5, <2>6, <2>7, <2>8, <2>9, Steps, ReadTyped, OnCleanedTyped
<1> QED
  BY <1>1, <1>2, PTL DEF Spec

-----------------------------------------------------------------------------
(* One thread at a time.                                                   *)

\* The task that cleans is the last one of the app's thread: nobody reads from a connection
\* that moves, so that nothing is posted behind it.
CleanLast(queue) == \A i \in 1..Len(queue) : queue[i] = "clean" => i = Len(queue) /\ moving = 7

InTurn(queues) ==
    own_loop =>
        /\ attach_to = "app" => queues["engine"] = <<>>
        /\ attach_to # "app" => queues["app"] = <<>>
        /\ CleanLast(queues["app"])
        /\ stream = "cleaning" \/ is_cleaned => queues["app"] = <<>>

Turns ==
    /\ moving # 0 => own_loop /\ ~reading /\ attach_to = "app" /\ migration_state = "first_msg"
    /\ own_loop =>
          /\ attach_to = "app" => migration_state # "done"
          /\ attach_to # "app" => stream \in {"engine", "none"} /\ migration_state = "done"
          /\ stream = "cleaning" \/ is_cleaned => moving = 7 \/ attach_to # "app"
    /\ InTurn(tasks)

LEMMA TakenInTurn ==
    ASSUME TypeOK, Turns, NEW t \in Threads, tasks[t] # <<>>
    PROVE  InTurn(Taken(t))
<1> SUFFICES ASSUME own_loop
             PROVE  /\ attach_to = "app" => Taken(t)["engine"] = <<>>
                    /\ attach_to # "app" => Taken(t)["app"] = <<>>
                    /\ CleanLast(Taken(t)["app"])
                    /\ stream = "cleaning" \/ is_cleaned => Taken(t)["app"] = <<>>
  BY DEF InTurn
<1>1. /\ tasks \in [Threads -> Seq(Tasks)]
      /\ Taken(t)[t] = Tail(tasks[t])
      /\ \A u \in Threads \ {t} : Taken(t)[u] = tasks[u]
  BY TakenFacts DEF TypeOK
<1>2. /\ attach_to = "app" => tasks["engine"] = <<>>
      /\ attach_to # "app" => tasks["app"] = <<>>
      /\ CleanLast(tasks["app"])
      /\ stream = "cleaning" \/ is_cleaned => tasks["app"] = <<>>
  BY DEF Turns, InTurn
<1>3. CASE t = "engine"
  BY <1>1, <1>2, <1>3 DEF Threads
<1>4. CASE t = "app"
  <2>1. /\ Len(Tail(tasks["app"])) = Len(tasks["app"]) - 1 /\ Len(tasks["app"]) \in Nat
        /\ \A i \in 1..Len(Tail(tasks["app"])) : Tail(tasks["app"])[i] = tasks["app"][i + 1]
    BY <1>1, <1>4, HeadTailProperties
  <2>2. CleanLast(Tail(tasks["app"]))
    <3> SUFFICES ASSUME NEW i \in 1..Len(Tail(tasks["app"])), Tail(tasks["app"])[i] = "clean"
                 PROVE  i = Len(Tail(tasks["app"])) /\ moving = 7
      BY DEF CleanLast
    <3>1. i + 1 \in 1..Len(tasks["app"]) /\ tasks["app"][i + 1] = "clean"
      BY <2>1
    <3>2. i + 1 = Len(tasks["app"]) /\ moving = 7
      BY <1>2, <3>1 DEF CleanLast
    <3> QED
      BY <2>1, <3>2
  <2> QED
    BY <1>1, <1>2, <1>4, <2>2 DEF Threads
<1> QED
  BY <1>3, <1>4 DEF Threads

\* Posting something else keeps the order.
LEMMA PostInTurn ==
    ASSUME NEW queues \in [Threads -> Seq(Tasks)], NEW task \in Tasks \ {"clean"},
           InTurn(queues), own_loop, attach_to = "app", moving = 0,
           ~(stream = "cleaning" \/ is_cleaned)
    PROVE  InTurn(Post(queues, "app", task))
<1>1. /\ Post(queues, "app", task)["app"] = Append(queues["app"], task)
      /\ \A u \in Threads \ {"app"} : Post(queues, "app", task)[u] = queues[u]
  BY PostFacts, "app" \in Threads DEF Threads
<1>2. queues["app"] \in Seq(Tasks) /\ queues["engine"] = <<>> /\ CleanLast(queues["app"])
  BY DEF InTurn, Threads
<1>3. /\ Len(Append(queues["app"], task)) = Len(queues["app"]) + 1
      /\ Len(queues["app"]) \in Nat
      /\ \A i \in 1..Len(queues["app"]) : Append(queues["app"], task)[i] = queues["app"][i]
      /\ Append(queues["app"], task)[Len(queues["app"]) + 1] = task
  BY <1>2, AppendProperties
<1>4. CleanLast(Append(queues["app"], task))
  <2> SUFFICES ASSUME NEW i \in 1..(Len(queues["app"]) + 1),
                      Append(queues["app"], task)[i] = "clean"
               PROVE  FALSE
    BY <1>3 DEF CleanLast
  <2>1. i \in 1..Len(queues["app"]) /\ queues["app"][i] = "clean"
    BY <1>3
  <2> QED
    BY <1>2, <2>1 DEF CleanLast
<1> QED
  BY <1>1, <1>2, <1>4 DEF InTurn, Threads

LEMMA InputTurns ==
    ASSUME TypeOK, Turns, NEW msgs, NEW kept, NEW queues \in [Threads -> Seq(Tasks)],
           InTurn(queues), OnInputs(msgs, kept, queues),
           UNCHANGED <<own_loop, stream, is_cleaned>>
    PROVE  Turns'
<1>1. CASE migration_state = "init"
  <2>1. PICK m : \/ own_loop /\ Migrate(m, queues)
                 \/ ~own_loop /\ UpgradeAtOnce(m, queues)
                 \/ EngineNotFound(m, queues) \/ AppHandles(m, queues)
    BY <1>1 DEF OnInputs, FirstMsg
  <2>2. moving = 0 /\ (own_loop => attach_to = "app" /\ ~(stream = "cleaning" \/ is_cleaned))
    BY <1>1 DEF Turns
  <2>3. CASE own_loop /\ Migrate(m, queues)
    <3>1. InTurn(tasks)'
      BY <2>2, <2>3 DEF Migrate, InTurn, CleanLast
    <3> QED
      BY <2>2, <2>3, <3>1 DEF Migrate, Turns
  <2>4. CASE ~own_loop /\ UpgradeAtOnce(m, queues)
    BY <2>2, <2>4 DEF UpgradeAtOnce, Turns, InTurn
  <2>5. CASE EngineNotFound(m, queues)
    <3>1. InTurn(tasks)'
      <4> SUFFICES ASSUME own_loop PROVE InTurn(tasks)'
        BY DEF InTurn
      <4>1. tasks' = Post(queues, "app", "on_cleaned")
        BY <2>2, <2>5 DEF EngineNotFound, AttachedThread
      <4>2. InTurn(Post(queues, "app", "on_cleaned"))
        BY <2>2, PostInTurn, "on_cleaned" \in Tasks \ {"clean"} DEF Tasks
      <4> QED
        BY <2>5, <4>1, <4>2 DEF EngineNotFound, InTurn, CleanLast
    <3> QED
      BY <2>2, <2>5, <3>1 DEF EngineNotFound, Turns
  <2>6. CASE AppHandles(m, queues)
    <3>1. InTurn(tasks)'
      BY <2>6 DEF AppHandles, InTurn, CleanLast
    <3> QED
      BY <2>2, <2>6, <3>1 DEF AppHandles, Turns
  <2> QED
    BY <2>1, <2>3, <2>4, <2>5, <2>6
<1>2. CASE LaterMsgs(msgs, kept, queues)
  <2>1. InTurn(tasks)'
    BY <1>2 DEF LaterMsgs, InTurn, CleanLast
  <2> QED
    BY <1>2, <2>1 DEF LaterMsgs, Turns
<1> QED
  BY <1>1, <1>2 DEF OnInputs

\* The socket is not read while the connection moves, so that the end of it posts the closing
\* task where the connection is.
LEMMA HangUpTurns == ASSUME TypeOK, Turns, HangUp PROVE Turns'
<1>1. moving = 0 /\ tasks \in [Threads -> Seq(Tasks)]
  BY DEF HangUp, Readable, Turns, TypeOK
<1>2. InTurn(tasks)'
  <2> SUFFICES ASSUME own_loop PROVE InTurn(tasks)'
    BY DEF HangUp, InTurn
  <2>1. CASE attach_to = "app"
    <3>1. tasks' = Post(tasks, "app", "close") /\ InTurn(tasks)
      BY <2>1 DEF HangUp, End, AttachedThread, Turns
    <3>2. "close" \in Tasks \ {"clean"} /\ ~(stream = "cleaning" \/ is_cleaned)
      BY <1>1, <2>1 DEF Tasks, Turns
    <3>3. InTurn(Post(tasks, "app", "close"))
      BY <1>1, <2>1, <3>1, <3>2, PostInTurn
    <3> QED
      BY <3>1, <3>3 DEF HangUp, InTurn, CleanLast
  <2>2. CASE attach_to # "app"
    <3>1. /\ Post(tasks, "engine", "close")["app"] = tasks["app"]
          /\ tasks' = Post(tasks, "engine", "close")
      BY <1>1, <2>2, PostFacts, "close" \in Tasks DEF HangUp, End, AttachedThread,
         EngineThread, Threads, Tasks
    <3>2. tasks'["app"] = <<>>
      BY <2>2, <3>1 DEF Turns, InTurn
    <3> QED
      BY <2>2, <3>2 DEF HangUp, InTurn, CleanLast
  <2> QED
    BY <2>1, <2>2
<1> QED
  BY <1>1, <1>2 DEF HangUp, Turns

\* The cleaning task comes last, and only once.
LEMMA MigratedTurns == ASSUME TypeOK, Turns, Migrated PROVE Turns'
<1>1. moving = 6 /\ moving' = 7 /\ tasks' = Post(tasks, "app", "clean")
  BY DEF Migrated
<1>2. own_loop /\ attach_to = "app" /\ tasks \in [Threads -> Seq(Tasks)]
  <2>1. moving # 0
    BY <1>1
  <2> QED
    BY <2>1, Zenon DEF Turns, TypeOK
<1>3. UNCHANGED <<own_loop, stream, reading, migration_state, attach_to, is_cleaned>>
  BY DEF Migrated
<1>4. /\ tasks'["app"] = Append(tasks["app"], "clean")
      /\ tasks'["engine"] = tasks["engine"]
  <2>1. "clean" \in Tasks /\ "app" \in Threads /\ "engine" \in Threads \ {"app"}
    BY DEF Threads, Tasks
  <2>2. /\ Post(tasks, "app", "clean")["app"] = Append(tasks["app"], "clean")
        /\ Post(tasks, "app", "clean")["engine"] = tasks["engine"]
    <3>1. tasks \in [Threads -> Seq(Tasks)]
      BY <1>2
    <3>2. \A u \in Threads \ {"app"} : Post(tasks, "app", "clean")[u] = tasks[u]
      BY <2>1, <3>1, PostFacts
    <3>3. Post(tasks, "app", "clean")["app"] = Append(tasks["app"], "clean")
      BY <2>1, <3>1, PostFacts
    <3> QED
      BY <2>1, <3>2, <3>3
  <2> QED
    BY <1>1, <2>2
<1>5. /\ ~(stream = "cleaning" \/ is_cleaned)
      /\ \A i \in 1..Len(tasks["app"]) : tasks["app"][i] # "clean"
  BY <1>1, <1>2 DEF Turns, InTurn, CleanLast
<1>6. /\ Len(Append(tasks["app"], "clean")) = Len(tasks["app"]) + 1
      /\ Len(tasks["app"]) \in Nat
      /\ \A i \in 1..Len(tasks["app"]) : Append(tasks["app"], "clean")[i] = tasks["app"][i]
  BY <1>2, AppendProperties, "clean" \in Tasks DEF Threads, Tasks
<1>7. CleanLast(tasks["app"])'
  BY <1>1, <1>4, <1>5, <1>6 DEF CleanLast
<1> QED
  BY <1>1, <1>2, <1>3, <1>4, <1>5, <1>7 DEF Turns, InTurn

\* Behind the cleaning task there is nothing.
LEMMA CleanTurns == ASSUME TypeOK, Turns, Clean PROVE Turns'
<1>1. /\ moving # 0 /\ own_loop /\ attach_to = "app"
      /\ tasks["app"] # <<>> /\ Head(tasks["app"]) = "clean"
      /\ tasks \in [Threads -> Seq(Tasks)]
      /\ tasks' = Taken("app") /\ stream' = "cleaning"
      /\ UNCHANGED <<own_loop, reading, migration_state, attach_to, moving, is_cleaned>>
  BY DEF Clean, Moving, Task, Turns, TypeOK
<1>2. Len(tasks["app"]) = 1 /\ moving = 7
  <2>1. 1 \in 1..Len(tasks["app"]) /\ tasks["app"][1] = "clean"
    BY <1>1 DEF Threads
  <2> QED
    BY <1>1, <2>1 DEF Turns, InTurn, CleanLast
<1>3. /\ tasks'["app"] = Tail(tasks["app"]) /\ tasks'["engine"] = tasks["engine"]
  BY <1>1, TakenFacts DEF Threads
<1>4. tasks'["app"] = <<>>
  BY <1>1, <1>2, <1>3 DEF Threads
<1> QED
  BY <1>1, <1>2, <1>3, <1>4 DEF Turns, InTurn, CleanLast

\* When the engine's thread reads on, the app's has nothing left to do.
LEMMA ConnectionCleanedTurns == ASSUME TypeOK, Turns, ConnectionCleaned PROVE Turns'
<1>1. /\ own_loop /\ is_cleaned /\ tasks["app"] = <<>>
      /\ tasks \in [Threads -> Seq(Tasks)]
      /\ tasks' = Post(Post(tasks, "engine", "handle_in_msgs"), "engine", "on_cleaned")
  BY DEF ConnectionCleaned, Moving, Cleaned, AppendThenUpgrade, Turns, InTurn, TypeOK
<1>2. PICK q : q = Post(tasks, "engine", "handle_in_msgs")
  OBVIOUS
<1>3. q \in [Threads -> Seq(Tasks)] /\ q["app"] = <<>>
  BY <1>1, <1>2, PostFacts, "handle_in_msgs" \in Tasks DEF Threads, Tasks
<1>4. Post(q, "engine", "on_cleaned")["app"] = q["app"]
  BY <1>3, PostFacts, "on_cleaned" \in Tasks DEF Threads, Tasks
<1>5. tasks'["app"] = <<>>
  BY <1>1, <1>2, <1>3, <1>4
<1> QED
  BY <1>1, <1>5 DEF ConnectionCleaned, Turns, InTurn, CleanLast

LEMMA TurnsStep == ASSUME TypeOK, Turns, [Next]_vars PROVE Turns'
<1>1. CASE UNCHANGED vars
  BY <1>1 DEF vars, Turns, InTurn, CleanLast
<1>2. ASSUME NEW n \in 1..(Len(script) - read), Read(n) PROVE Turns'
  <2>1. InTurn(tasks) /\ tasks \in [Threads -> Seq(Tasks)]
    BY DEF Turns, TypeOK
  <2>2. PICK msgs : OnInputs(msgs, in_msgs, tasks)
    BY <1>2 DEF Read
  <2> QED
    BY <1>2, <2>1, <2>2, InputTurns DEF Read
<1>3. CASE Handshake
  <2>1. moving # 7
    BY <1>3 DEF Handshake, LastStep
  <2>2. ~(stream = "cleaning" \/ is_cleaned) \/ attach_to # "app"
    BY <1>3, <2>1 DEF Handshake, Moving, Turns
  <2> QED
    BY <1>3, <2>1, <2>2 DEF Handshake, Moving, Turns, InTurn, CleanLast, TypeOK
<1>4. CASE StreamCleaned \/ StreamClosed
  BY <1>4 DEF StreamCleaned, StreamClosed, Turns, InTurn, CleanLast
<1>5. CASE HandleInMsgs
  <2>1. EngineThread \in Threads /\ tasks[EngineThread] # <<>>
    BY <1>5 DEF HandleInMsgs, Task, EngineThread, Threads
  <2>2. InTurn(Taken(EngineThread))
    BY <2>1, TakenInTurn
  <2>3. own_loop => attach_to # "app"
    BY <2>1 DEF EngineThread, Turns, InTurn
  <2> QED
    BY <1>5, <2>2, <2>3 DEF HandleInMsgs, Turns, InTurn, CleanLast
<1>6. ASSUME NEW t \in Threads, CloseTask(t) PROVE Turns'
  <2>1. InTurn(Taken(t))
    BY <1>6, TakenInTurn DEF CloseTask, Task
  <2> QED
    BY <1>6, <2>1 DEF CloseTask, Turns, InTurn, CleanLast
<1>7. ASSUME NEW t \in Threads, OnCleaned(t) PROVE Turns'
  <2>1. InTurn(Taken(t)) /\ Taken(t) \in [Threads -> Seq(Tasks)]
    BY <1>7, TakenInTurn, TaskTyped DEF OnCleaned, Task
  <2>2. CASE Ignore(t)
    BY <1>7, <2>1, <2>2 DEF OnCleaned, Ignore, Turns, InTurn, CleanLast
  <2>3. CASE OnInputs(in_msgs, <<>>, Taken(t))
    BY <1>7, <2>1, <2>3, InputTurns DEF OnCleaned
  <2> QED
    BY <1>7, <2>2, <2>3 DEF OnCleaned, TakeThem
<1> QED
  BY <1>1, <1>2, <1>3, <1>4, <1>5, <1>6, <1>7, Steps, HangUpTurns, MigratedTurns, CleanTurns,
     ConnectionCleanedTurns

\* The app's thread and the engine's have the connection one after the other, and nobody
\* reads from it, and nothing is to be done about it, while it moves
\* (engine/internal/migration.c:56).
THEOREM OneThreadAtATime == Spec => []OneAtATime
<1>1. ASSUME Init PROVE Turns
  BY <1>1 DEF Init, Turns, InTurn, CleanLast, Threads
<1>2. Spec => []Turns
  BY <1>1, TurnsStep, TypesCorrect, PTL DEF Spec
<1>3. ASSUME Turns, MInv, SInv PROVE OneAtATime
  <2>1. /\ own_loop /\ attach_to # "app" => tasks["app"] = <<>> /\ stream \in {"engine", "none"}
        /\ moving # 0 => ~reading
    BY <1>3 DEF Turns, InTurn
  <2>2. ASSUME moving # 0, ~reset
        PROVE  tasks["app"] \in {<<>>, <<"clean">>} /\ tasks["engine"] = <<>>
    <3>1. CASE Moves
      BY <1>3, <2>2, <3>1 DEF MInv, Phase, Idle, Shaking, Waiting, Moved, Attached, Linked,
         Served
    <3>2. CASE ~Moves
      BY <1>3, <2>2, <3>2 DEF SInv, StayPhase, Idle, Stays, Dropped, Upgraded, Cleared,
         WithEngine, Shared
    <3> QED
      BY <3>1, <3>2
  <2> QED
    BY <2>1, <2>2 DEF OneAtATime
<1> QED
  BY <1>2, <1>3, Invariant, StayInvariant, PTL
=============================================================================
