----------------------------- MODULE Migration -----------------------------
(***************************************************************************)
(* How the connection of a client moves from the thread of the app, which  *)
(* accepted it, to the thread of the engine that its first message is for. *)
(*                                                                         *)
(* The app feeds only the first message of a connection to the runtime and *)
(* keeps the rest in the protocol until it is known where the connection   *)
(* belongs.  An engine with a loop of its own gets the socket through a    *)
(* handshake of the two loops; then the app's thread cleans its side while *)
(* the engine's thread waits.  An engine in the app's loop only has the    *)
(* connection attached to it.  If there is no such graph, the next message *)
(* is a first one again.                                                   *)
(*                                                                         *)
(* A message is its place in the script of the client.  It has arrived     *)
(* where it belongs once the app, or the remote of the engine, has it; the *)
(* way from there is in CmdRouting.  An engine or an app that closes       *)
(* meanwhile, and a first close_app, are not modelled.                     *)
(***************************************************************************)
EXTENDS Naturals, Sequences

CONSTANTS
    OwnLoops,       \* the values that the engine's has_own_loop may have
    Scripts         \* what the client may send: a sequence of kinds

\* A message for the graph, for a graph that is not there, or for none (one the app itself
\* handles, or that it drops because it is not a command).
Kinds == {"cmd", "unknown", "other"}

ASSUME MigrationAssumption ==
    /\ OwnLoops \subseteq BOOLEAN
    /\ Scripts \subseteq Seq(Kinds)

VARIABLES
    own_loop,       \* has_own_loop of the engine
    script,         \* what this client sends
    read,           \* how many messages have been read from the socket
    hung_up,        \* the end of the connection has been read
    stream,         \* of the protocol: in the app's loop, cleaning, none, or in the engine's
    reading,        \* the socket is being read
    migration_state,    \* init, first_msg or done
    attach_to,      \* the connection's: app, engine or remote
    in_msgs,        \* of the protocol: the messages put aside
    moving,         \* 0; 1 to 6, the next step of the handshake; 7, the engine waits
    carried,        \* the command that moves with the connection
    is_cleaned,     \* the event the engine waits for
    engine_msgs,    \* in_msgs of the engine
    protocol,       \* init, closing or closed
    tasks,          \* per thread, the tasks in its runloop
    handled,        \* the messages that have arrived, in their order
    lost,           \* those that met an assertion: without assertions they are dropped
    reset           \* a message found no engine

vars == <<own_loop, script, read, hung_up, stream, reading, migration_state, attach_to,
          in_msgs, moving, carried, is_cleaned, engine_msgs, protocol, tasks, handled, lost,
          reset>>

Threads == {"app", "engine"}
Tasks == {"clean", "handle_in_msgs", "on_cleaned", "close"}

Init ==
    /\ own_loop \in OwnLoops
    /\ script \in Scripts
    /\ read = 0
    /\ hung_up = FALSE
    /\ stream = "app"
    /\ reading = TRUE
    /\ migration_state = "init"
    /\ attach_to = "app"
    /\ in_msgs = <<>>
    /\ moving = 0
    /\ carried = 0
    /\ is_cleaned = FALSE
    /\ engine_msgs = <<>>
    /\ protocol = "init"
    /\ tasks = [t \in Threads |-> <<>>]
    /\ handled = <<>>
    /\ lost = {}
    /\ reset = FALSE

-----------------------------------------------------------------------------
(* Helpers.                                                                *)

EngineThread == IF own_loop THEN "engine" ELSE "app"

\* ten_connection_get_attached_runloop.
AttachedThread == IF attach_to = "app" THEN "app" ELSE EngineThread

Post(queues, t, task) == [queues EXCEPT ![t] = Append(@, task)]

\* The thread whose loop has the stream.
Reader == IF stream = "engine" THEN "engine" ELSE "app"

\* A thread takes its next task, unless it waits.
Free(t) == t = "app" \/ moving # 7
Task(t, task) == Free(t) /\ tasks[t] # <<>> /\ Head(tasks[t]) = task
Taken(t) == [tasks EXCEPT ![t] = Tail(@)]

\* Faulty variant: the first message is the last of the list.
SplitAtEnd(msgs) == [first |-> msgs[Len(msgs)], rest |-> SubSeq(msgs, 1, Len(msgs) - 1)]

Split(msgs) == [first |-> Head(msgs), rest |-> Tail(msgs)]

-----------------------------------------------------------------------------
(* The first message.  kept is what the protocol has put aside before, and  *)
(* queues the tasks that are there.                                        *)

\* ten_protocol_integrated_migrate: the engine has a loop of its own.
Migrate(m, queues) ==
    /\ reading' = FALSE
    /\ moving' = 1
    /\ carried' = m
    /\ migration_state' = "first_msg"
    /\ tasks' = queues
    /\ UNCHANGED <<attach_to, engine_msgs, handled, reset>>

\* ten_connection_needs_to_migrate, and the message goes to the engine in the app's loop.
UpgradeAtOnce(m, queues) ==
    /\ migration_state' = "done"
    /\ attach_to' = "engine"
    /\ engine_msgs' = Append(engine_msgs, m)
    /\ tasks' = Post(Post(queues, EngineThread, "on_cleaned"), EngineThread, "handle_in_msgs")
    /\ UNCHANGED <<reading, moving, carried, handled, reset>>

\* ten_connection_migration_state_reset_when_engine_not_found, and the error is sent back.
EngineNotFound(m, queues) ==
    /\ migration_state' = "init"
    /\ reset' = TRUE
    /\ handled' = Append(handled, m)
    /\ tasks' = Post(queues, AttachedThread, "on_cleaned")
    /\ UNCHANGED <<reading, moving, carried, attach_to, engine_msgs>>

\* The app handles or drops the message; nothing is said about the connection.
AppHandles(m, queues) ==
    /\ migration_state' = "first_msg"
    /\ handled' = Append(handled, m)
    /\ tasks' = queues
    /\ UNCHANGED <<reading, moving, carried, attach_to, engine_msgs, reset>>

\* ten_protocol_on_input: the app gets the first message, the rest is put aside.
FirstMsg(msgs, kept, queues) ==
    LET m == Split(msgs).first IN
    /\ in_msgs' = kept \o Split(msgs).rest
    /\ \/ script[m] = "cmd" /\ own_loop /\ Migrate(m, queues)
       \/ script[m] = "cmd" /\ ~own_loop /\ UpgradeAtOnce(m, queues)
       \/ script[m] = "unknown" /\ EngineNotFound(m, queues)
       \/ script[m] = "other" /\ AppHandles(m, queues)
    /\ UNCHANGED lost

Elements(msgs) == {msgs[i] : i \in 1..Len(msgs)}

\* ten_protocol_on_inputs: the remote gets them; a connection without one asserts, and so
\* does, in the middle of the migration, the protocol.
LaterMsgs(msgs, kept, queues) ==
    /\ IF migration_state = "done" /\ attach_to = "remote"
       THEN handled' = handled \o msgs /\ UNCHANGED lost
       ELSE lost' = lost \cup Elements(msgs) /\ UNCHANGED handled
    /\ in_msgs' = kept
    /\ tasks' = queues
    /\ UNCHANGED <<reading, moving, carried, migration_state, attach_to, engine_msgs, reset>>

\* ten_protocol_on_inputs_based_on_migration_state.
OnInputs(msgs, kept, queues) ==
    IF migration_state = "init" THEN FirstMsg(msgs, kept, queues)
                                ELSE LaterMsgs(msgs, kept, queues)

\* libuv turns to a socket that it has begun to read in the engine's loop only after the
\* tasks that were posted before; in the app's loop it may turn to the socket first.
Readable == reading /\ protocol = "init" /\ (Reader = "engine" => tasks["engine"] = <<>>)

\* ten_stream_on_data: some more messages.
Read(n) ==
    /\ Readable
    /\ read + n <= Len(script)
    /\ read' = read + n
    /\ OnInputs([i \in 1..n |-> read + i], in_msgs, tasks)
    /\ UNCHANGED <<own_loop, script, hung_up, stream, is_cleaned, protocol>>

\* Faulty variant: the protocol is closed at once.
EndAtOnce ==
    /\ hung_up' = TRUE
    /\ reading' = FALSE
    /\ protocol' = "closing"
    /\ UNCHANGED tasks

\* ten_stream_on_data at the end of the stream: a task closes the protocol.
End ==
    /\ hung_up' = TRUE
    /\ reading' = FALSE
    /\ tasks' = Post(tasks, AttachedThread, "close")
    /\ UNCHANGED protocol

HangUp ==
    /\ Readable
    /\ End
    /\ UNCHANGED <<own_loop, script, read, stream, migration_state, attach_to, in_msgs, moving,
                   carried, is_cleaned, engine_msgs, handled, lost, reset>>

-----------------------------------------------------------------------------
(* The migration.  A connection that is closed while it moves is destroyed: *)
(* what its threads do then is undefined, and they do nothing here.        *)

Moving == moving # 0 /\ protocol # "closed"

\* Faulty variant: one step too many.
LastSteps == 7

LastStep == 5

\* The two loops prepare the pipe in turn, and the app's loop sends the socket through it.
Handshake ==
    /\ Moving
    /\ moving <= LastStep
    /\ moving' = moving + 1
    /\ UNCHANGED <<own_loop, script, read, hung_up, stream, reading, migration_state, attach_to,
                   in_msgs, carried, is_cleaned, engine_msgs, protocol, tasks, handled, lost,
                   reset>>

\* ten_stream_migrated: the app is asked to clean its side, and the engine waits.
Migrated ==
    /\ Moving
    /\ moving = 6
    /\ moving' = 7
    /\ tasks' = Post(tasks, "app", "clean")
    /\ UNCHANGED <<own_loop, script, read, hung_up, stream, reading, migration_state, attach_to,
                   in_msgs, carried, is_cleaned, engine_msgs, protocol, handled, lost, reset>>

\* ten_app_clean_connection_task.
Clean ==
    /\ Moving
    /\ Task("app", "clean")
    /\ stream' = "cleaning"
    /\ tasks' = Taken("app")
    /\ UNCHANGED <<own_loop, script, read, hung_up, reading, migration_state, attach_to,
                   in_msgs, moving, carried, is_cleaned, engine_msgs, protocol, handled, lost,
                   reset>>

\* ten_protocol_integrated_on_stream_cleaned, when the stream in the app's loop has closed.
StreamCleaned ==
    /\ stream = "cleaning"
    /\ stream' = "none"
    /\ is_cleaned' = TRUE
    /\ UNCHANGED <<own_loop, script, read, hung_up, reading, migration_state, attach_to,
                   in_msgs, moving, carried, engine_msgs, protocol, tasks, handled, lost,
                   reset>>

\* Faulty variant: the engine does not wait.
CleanedAnyway == TRUE

Cleaned == is_cleaned

\* Faulty variant: the connection is upgraded before the command is queued.
UpgradeFirst ==
    tasks' = Post(Post(tasks, "engine", "on_cleaned"), "engine", "handle_in_msgs")

\* ten_engine_append_to_in_msgs_queue and ten_connection_upgrade_migration_state_to_done.
AppendThenUpgrade ==
    tasks' = Post(Post(tasks, "engine", "handle_in_msgs"), "engine", "on_cleaned")

\* ten_engine_on_connection_cleaned, when the wait is over; the engine reads on.
ConnectionCleaned ==
    /\ Moving
    /\ moving = 7
    /\ Cleaned
    /\ AppendThenUpgrade
    /\ engine_msgs' = Append(engine_msgs, carried)
    /\ migration_state' = "done"
    /\ attach_to' = "engine"
    /\ stream' = "engine"
    /\ reading' = TRUE
    /\ moving' = 0
    /\ carried' = 0
    /\ UNCHANGED <<own_loop, script, read, hung_up, in_msgs, is_cleaned, protocol, handled,
                   lost, reset>>

-----------------------------------------------------------------------------
(* The other tasks.                                                        *)

\* ten_engine_handle_in_msgs_sync: an orphan connection gets a remote, which has the message.
HandleInMsgs ==
    /\ Task(EngineThread, "handle_in_msgs")
    /\ attach_to' = IF attach_to = "engine" THEN "remote" ELSE attach_to
    /\ handled' = handled \o engine_msgs
    /\ engine_msgs' = <<>>
    /\ tasks' = Taken(EngineThread)
    /\ UNCHANGED <<own_loop, script, read, hung_up, stream, reading, migration_state, in_msgs,
                   moving, carried, is_cleaned, protocol, lost, reset>>

\* Faulty variant: the messages that were put aside stay there until more arrive.
KeepThem(t) ==
    /\ tasks' = Taken(t)
    /\ UNCHANGED <<reading, migration_state, attach_to, in_msgs, moving, carried, engine_msgs,
                   handled, lost, reset>>

\* A protocol that is closing ignores the messages.
Ignore(t) ==
    /\ tasks' = Taken(t)
    /\ in_msgs' = <<>>
    /\ UNCHANGED <<reading, migration_state, attach_to, moving, carried, engine_msgs, handled,
                   lost, reset>>

\* What was put aside is handled now.
TakeThem(t) ==
    IF in_msgs = <<>> \/ protocol # "init" THEN Ignore(t)
                                           ELSE OnInputs(in_msgs, <<>>, Taken(t))

\* ten_protocol_integrated_on_base_protocol_cleaned.
OnCleaned(t) ==
    /\ Task(t, "on_cleaned")
    /\ TakeThem(t)
    /\ UNCHANGED <<own_loop, script, read, hung_up, stream, is_cleaned, protocol>>

\* ten_protocol_close_task.
CloseTask(t) ==
    /\ Task(t, "close")
    /\ protocol' = IF protocol = "init" THEN "closing" ELSE protocol
    /\ reading' = FALSE
    /\ tasks' = Taken(t)
    /\ UNCHANGED <<own_loop, script, read, hung_up, stream, migration_state, attach_to, in_msgs,
                   moving, carried, is_cleaned, engine_msgs, handled, lost, reset>>

\* The stream has closed: the protocol and the connection are.
StreamClosed ==
    /\ protocol = "closing"
    /\ protocol' = "closed"
    /\ stream' = "none"
    /\ UNCHANGED <<own_loop, script, read, hung_up, reading, migration_state, attach_to,
                   in_msgs, moving, carried, is_cleaned, engine_msgs, tasks, handled, lost,
                   reset>>

-----------------------------------------------------------------------------

Move == Handshake \/ Migrated \/ ConnectionCleaned
Clear == Clean \/ StreamCleaned \/ StreamClosed
Run(t) == CloseTask(t) \/ OnCleaned(t)

Next ==
    \/ \E n \in 1..(Len(script) - read) : Read(n)
    \/ HangUp
    \/ Move \/ Clear \/ HandleInMsgs
    \/ \E t \in Threads : Run(t)

Spec == Init /\ [][Next]_vars

\* Both threads run: they do their tasks, the steps of the handshake and the callbacks.
Fairness ==
    /\ WF_vars(Move) /\ WF_vars(Clear) /\ WF_vars(HandleInMsgs)
    /\ \A t \in Threads : WF_vars(Run(t))

FairSpec == Spec /\ Fairness

-----------------------------------------------------------------------------
(* Properties.                                                             *)

TypeOK ==
    /\ own_loop \in BOOLEAN
    /\ script \in Seq(Kinds)
    /\ read \in 0..Len(script)
    /\ hung_up \in BOOLEAN
    /\ stream \in {"app", "cleaning", "none", "engine"}
    /\ reading \in BOOLEAN
    /\ migration_state \in {"init", "first_msg", "done"}
    /\ attach_to \in {"app", "engine", "remote"}
    /\ in_msgs \in Seq(1..Len(script))
    /\ moving \in 0..7
    /\ carried \in 0..Len(script)
    /\ is_cleaned \in BOOLEAN
    /\ engine_msgs \in Seq(1..Len(script))
    /\ protocol \in {"init", "closing", "closed"}
    /\ tasks \in [Threads -> Seq(Tasks)]
    /\ handled \in Seq(1..Len(script))
    /\ lost \subseteq 1..Len(script)
    /\ reset \in BOOLEAN

\* However the client's messages are cut into pieces and whenever the connection moves, they
\* are handled in their order; except after a message for a graph that is not there: a new
\* piece may then be read before the rest of the old one is taken up.
InOrder ==
    ~reset => \A i, j \in 1..Len(handled) : i < j => handled[i] < handled[j]

\* The engine has a loop of its own and the connection moves there with its first message.
Moves == own_loop /\ script # <<>> /\ script[1] = "cmd"

\* A connection that moves loses none of its messages, and none is left when it has closed.
NothingIsLost ==
    Moves => /\ lost = {}
             /\ protocol # "init" => Len(handled) = read

\* "All the messages" are handled "in the original order", as the comment where on_cleaned is
\* posted has it: none meets an assertion on its way, wherever the engine runs.
AllAreHandled == lost = {}

\* The two threads have the connection one after the other: once the engine's has it,
\* nothing about it is left in the app's; and while it moves, nobody reads from it and,
\* without a reset, no task about it but the cleaning is there.
OneAtATime ==
    /\ own_loop /\ attach_to # "app" => tasks["app"] = <<>> /\ stream \in {"engine", "none"}
    /\ moving # 0 => ~reading
    /\ moving # 0 /\ ~reset => tasks["app"] \in {<<>>, <<"clean">>} /\ tasks["engine"] = <<>>

\* The task that closes the protocol is the last one about the connection (unless a message
\* found no graph): none is left, nothing is put aside, and it is not moving.
ClosesLast ==
    protocol # "init" /\ ~reset =>
        /\ \A t \in Threads : tasks[t] = <<>>
        /\ in_msgs = <<>> \/ migration_state = "first_msg"
        /\ engine_msgs = <<>>
        /\ moving = 0

\* What has been read from a connection that moves is handled in the end: the handshake ends,
\* the engine does not wait for ever, and what was put aside is taken up.
EverythingArrives ==
    \A n \in 1..4 : Moves /\ read >= n ~> Len(handled) >= n

\* A client that hangs up is noticed, whatever its messages were.
Closes == hung_up ~> protocol = "closed"

\* The client gets to its end, with all that it has said.
ClientIsServed == EverythingArrives /\ Closes
=============================================================================
