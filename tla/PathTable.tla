------------------------------ MODULE PathTable ------------------------------
(***************************************************************************)
(* The OUT half of the path table of one extension: what the extension     *)
(* remembers of every command it has sent, and how the command results     *)
(* that come back reach the result handler of that command.                *)
(*                                                                         *)
(* Commands are numbered in the order in which the extension sends them.   *)
(* Command c goes to NDest[c] destinations, in the order of the graph; one *)
(* OUT path <<c, d>> is created per destination, and a command with more   *)
(* than one destination has its paths in a path group that follows         *)
(* Policy[c].  A destination may return any number of partial results      *)
(* before its final one; a destination that never answers is the case      *)
(* where the command, or its result, was dropped on the way.               *)
(*                                                                         *)
(* Everything below happens on the extension's own thread, except          *)
(* ReturnResult, which is a destination's.                                 *)
(***************************************************************************)
EXTENDS Naturals, Sequences

CONSTANTS
    NCmd,           \* the commands that the extension may send are 1..NCmd, in that order
    NDest,          \* [1..NCmd -> number of destinations in the graph]
    Policy,         \* [1..NCmd -> result return policy]
    MaxPartial,     \* bound: per path, the partial results its destination returns
    Sendings,       \* bound: the sets of them that it may have sent
    InvalidReturn   \* the paths whose results break the extension's own schema

Cmd == 1..NCmd
Status == {"OK", "ERROR"}
Policies == {"FIRST_ERROR_OR_LAST_OK", "EACH_OK_AND_ERROR"}

\* An OUT path is named by the command and the index of its destination.
PathsOf(c) == {<<c, d>> : d \in 1..NDest[c]}
Path == UNION {PathsOf(c) : c \in Cmd}

ASSUME PathTableAssumption ==
    /\ NCmd \in Nat
    /\ NDest \in [1..NCmd -> Nat \ {0}]
    /\ Policy \in [1..NCmd -> Policies]
    /\ MaxPartial \in [Path -> Nat]
    /\ Sendings \subseteq SUBSET Cmd
    /\ InvalidReturn \subseteq Path

Grouped(c) == NDest[c] > 1
LastInGroup(c) == <<c, NDest[c]>>

\* The order of the out_paths list: by command, then by destination.
Before(p, q) == p[1] < q[1] \/ (p[1] = q[1] /\ p[2] < q[2])

NoResult == [status |-> "none", dest |-> 0]

VARIABLES
    state,      \* the extension's life, as far as the path table depends on it
    sent,       \* the commands that have been dispatched
    out_paths,  \* the paths in the table
    has_received_final_cmd_result,  \* the paths on which a final result was processed
    cached_cmd_result,  \* per command: the result kept on its last path
    errored,    \* history: the paths on which an ERROR result was processed
    to_return,  \* per path: results the destination may still return, 0 when its IN path is gone
    wire,       \* per path: the results on their way to the extension
    expired,    \* the paths that the timer has already found expired
    batch,      \* synthesised ERROR results that the timer or the flush has still to feed
    handled     \* per command: the calls of its result handler

vars == <<state, sent, out_paths, has_received_final_cmd_result, cached_cmd_result,
          errored, to_return, wire, expired, batch, handled>>

table == <<out_paths, has_received_final_cmd_result, cached_cmd_result, errored, handled>>

Init ==
    /\ state = "ON_CONFIGURE"
    /\ sent = {}
    /\ out_paths = {}
    /\ has_received_final_cmd_result = {}
    /\ cached_cmd_result = [c \in Cmd |-> NoResult]
    /\ errored = {}
    /\ to_return = [p \in Path |-> 0]
    /\ wire = [p \in Path |-> <<>>]
    /\ expired = {}
    /\ batch = {}
    /\ handled = [c \in Cmd |-> <<>>]

-----------------------------------------------------------------------------
(* Sending a command, and the destinations that answer it.                 *)

\* ten_extension_dispatch_msg for a command: all OUT paths and their group
\* exist before the first message leaves.  Refused once the extension has
\* reached ON_DEINIT_DONE.
SendCmd(c) ==
    /\ state # "ON_DEINIT_DONE"
    /\ \A b \in sent : b < c
    /\ sent' = sent \union {c}
    /\ sent' \in Sendings
    /\ out_paths' = out_paths \union PathsOf(c)
    /\ to_return' = [p \in Path |-> IF p \in PathsOf(c) THEN MaxPartial[p] + 1
                                                         ELSE to_return[p]]
    /\ UNCHANGED <<state, has_received_final_cmd_result, cached_cmd_result, errored,
                   wire, expired, batch, handled>>

\* Faulty variant: a destination goes on returning results after its final one.
ReturnResultForever(p, status, is_final) ==
    /\ to_return' = [to_return EXCEPT ![p] = @ - 1]
    /\ wire' = [wire EXCEPT ![p] = Append(@, [status |-> status, is_final |-> is_final])]
    /\ UNCHANGED <<state, sent, expired, batch, table>>

\* A destination returns a result; its own IN path lasts until the final one.
ReturnResult(p, status, is_final) ==
    /\ to_return[p] > (IF is_final THEN 0 ELSE 1)
    /\ to_return' = [to_return EXCEPT ![p] = IF is_final THEN 0 ELSE @ - 1]
    /\ wire' = [wire EXCEPT ![p] = Append(@, [status |-> status, is_final |-> is_final])]
    /\ UNCHANGED <<state, sent, expired, batch, table>>

-----------------------------------------------------------------------------
(* ten_path_table_process_cmd_result on an OUT path, followed by what      *)
(* ten_extension_handle_in_msg does with the outcome.                      *)

\* The paths known to have their final result once r has arrived on p.
FinalsWith(p, r) ==
    has_received_final_cmd_result \union (IF r.is_final THEN {p} ELSE {})

AllFinal(c, finals) == PathsOf(c) \subseteq finals

\* The schema check of the receiving extension: a result that breaks it goes on,
\* with its status turned to ERROR.
ValidatedStatus(c, d, status) == IF <<c, d>> \in InvalidReturn THEN "ERROR" ELSE status

CallHandler(c, d, status, completed) ==
    handled' = [handled EXCEPT ![c] =
        Append(@, [status |-> ValidatedStatus(c, d, status), dest |-> d,
                   is_completed |-> completed])]

\* Faulty variant: a result without a path reaches the handler all the same.
DiscardNothing(p) ==
    /\ p \notin out_paths
    /\ CallHandler(p[1], p[2], "OK", FALSE)
    /\ UNCHANGED <<out_paths, has_received_final_cmd_result, cached_cmd_result, errored>>

\* No path: the result is discarded.
DiscardResult(p) ==
    /\ p \notin out_paths
    /\ UNCHANGED table

\* A path without a group: every result proceeds, the final one removes the path.
SingleResult(p, r) ==
    /\ ~Grouped(p[1])
    /\ out_paths' = IF r.is_final THEN out_paths \ {p} ELSE out_paths
    /\ CallHandler(p[1], p[2], r.status, r.is_final)
    /\ UNCHANGED cached_cmd_result

\* Faulty variant: the ERROR removes its own path and leaves the rest of the group.
FirstErrorAlone(p, r) ==
    /\ Grouped(p[1])
    /\ Policy[p[1]] = "FIRST_ERROR_OR_LAST_OK"
    /\ r.status = "ERROR"
    /\ out_paths' = out_paths \ {p}
    /\ CallHandler(p[1], p[2], "ERROR", TRUE)
    /\ UNCHANGED cached_cmd_result

\* FIRST_ERROR_OR_LAST_OK, an ERROR: it completes the group.
FirstError(p, r) ==
    /\ Grouped(p[1])
    /\ Policy[p[1]] = "FIRST_ERROR_OR_LAST_OK"
    /\ r.status = "ERROR"
    /\ out_paths' = out_paths \ PathsOf(p[1])
    /\ CallHandler(p[1], p[2], "ERROR", TRUE)
    /\ UNCHANGED cached_cmd_result

\* Faulty variant: the OK of whichever member came last is kept.
LastOkToArrive(p, r) ==
    LET c == p[1]
        cached == [status |-> "OK", dest |-> p[2]]
    IN  /\ Grouped(c)
        /\ Policy[c] = "FIRST_ERROR_OR_LAST_OK"
        /\ r.status = "OK"
        /\ cached_cmd_result' = [cached_cmd_result EXCEPT ![c] = cached]
        /\ IF AllFinal(c, FinalsWith(p, r))
           THEN /\ out_paths' = out_paths \ PathsOf(c)
                /\ CallHandler(c, cached.dest, cached.status, TRUE)
           ELSE UNCHANGED <<out_paths, handled>>

\* FIRST_ERROR_OR_LAST_OK, an OK: kept when it is the last path's; nothing proceeds
\* until every member has its final result, and then the kept one does.
LastOk(p, r) ==
    LET c == p[1]
        cached == IF p = LastInGroup(c) THEN [status |-> "OK", dest |-> p[2]]
                                        ELSE cached_cmd_result[c]
    IN  /\ Grouped(c)
        /\ Policy[c] = "FIRST_ERROR_OR_LAST_OK"
        /\ r.status = "OK"
        /\ cached_cmd_result' = [cached_cmd_result EXCEPT ![c] = cached]
        /\ IF AllFinal(c, FinalsWith(p, r))
           THEN /\ out_paths' = out_paths \ PathsOf(c)
                /\ CallHandler(c, cached.dest, cached.status, TRUE)
           ELSE UNCHANGED <<out_paths, handled>>

\* Faulty variant: the last result of the group is not marked completed.
EachResultUnmarked(p, r) ==
    LET c == p[1]
        all_final == AllFinal(c, FinalsWith(p, r))
    IN  /\ Grouped(c)
        /\ Policy[c] = "EACH_OK_AND_ERROR"
        /\ out_paths' = IF all_final THEN out_paths \ PathsOf(c) ELSE out_paths
        /\ CallHandler(c, p[2], r.status, FALSE)
        /\ UNCHANGED cached_cmd_result

\* EACH_OK_AND_ERROR: every result proceeds; the group completes with the result
\* after which all its members are final.
EachResult(p, r) ==
    LET c == p[1]
        all_final == AllFinal(c, FinalsWith(p, r))
    IN  /\ Grouped(c)
        /\ Policy[c] = "EACH_OK_AND_ERROR"
        /\ out_paths' = IF all_final THEN out_paths \ PathsOf(c) ELSE out_paths
        /\ CallHandler(c, p[2], r.status, all_final)
        /\ UNCHANGED cached_cmd_result

ProcessCmdResult(p, r) ==
    \/ DiscardResult(p)
    \/ /\ p \in out_paths
       /\ has_received_final_cmd_result' = FinalsWith(p, r)
       /\ errored' = errored \union (IF r.status = "ERROR" THEN {p} ELSE {})
       /\ \/ SingleResult(p, r)
          \/ FirstError(p, r)
          \/ LastOk(p, r)
          \/ EachResult(p, r)

\* A result that arrives from its destination.  The loops of the timer and of the
\* flush are not interrupted by the runloop.
HandleInResult(p) ==
    /\ batch = {}
    /\ wire[p] # <<>>
    /\ ProcessCmdResult(p, Head(wire[p]))
    /\ wire' = [wire EXCEPT ![p] = Tail(@)]
    /\ UNCHANGED <<state, sent, to_return, expired, batch>>

-----------------------------------------------------------------------------
(* Timeouts and the life of the extension.                                 *)

\* The OUT path timer fires and finds the paths of X expired.  gettimeofday is not
\* monotonic, so X is any set that keeps what was expired before; a tick that finds
\* nothing newly expired is left out, which bounds the ticks by the paths.
OutPathTimer(X) ==
    /\ state = "ON_INIT"
    /\ batch = {}
    /\ X \subseteq out_paths
    /\ expired \intersect out_paths \subseteq X
    /\ ~(X \subseteq expired)
    /\ expired' = expired \union X
    /\ batch' = X
    /\ UNCHANGED <<state, sent, to_return, wire, table>>

SynthesisedError == [status |-> "ERROR", is_final |-> TRUE]

\* One round of the loop, of the timer or of the flush, over the results made for
\* the paths of the batch; result handlers run, and may send commands, in between.
FeedError ==
    \E p \in batch :
        /\ \A q \in batch \ {p} : Before(p, q)
        /\ ProcessCmdResult(p, SynthesisedError)
        /\ batch' = batch \ {p}
        /\ UNCHANGED <<state, sent, to_return, wire, expired>>

\* on_configure_done() creates and enables the path timers.
OnConfigureDone ==
    /\ state = "ON_CONFIGURE"
    /\ state' = "ON_INIT"
    /\ UNCHANGED <<sent, to_return, wire, expired, batch, table>>

\* on_stop_done() closes the path timers, and the last one to close runs on_deinit();
\* when the graph closed before on_configure_done() there are none.
PathTimersClosed ==
    /\ state \in {"ON_CONFIGURE", "ON_INIT"}
    /\ batch = {}
    /\ state' = "ON_DEINIT"
    /\ UNCHANGED <<sent, to_return, wire, expired, batch, table>>

\* Faulty variant: the remaining paths are not flushed.
OnDeinitDoneUnflushed ==
    /\ state = "ON_DEINIT"
    /\ state' = "ON_DEINIT_DONE"
    /\ UNCHANGED <<sent, to_return, wire, expired, batch, table>>

\* on_deinit_done() closes the ten_env and flushes what is left in the table.
OnDeinitDone ==
    /\ state = "ON_DEINIT"
    /\ state' = "ON_DEINIT_DONE"
    /\ batch' = out_paths
    /\ UNCHANGED <<sent, to_return, wire, expired, table>>

Next ==
    \/ \E c \in Cmd : SendCmd(c)
    \/ \E p \in Path, s \in Status, f \in BOOLEAN : ReturnResult(p, s, f)
    \/ \E p \in Path : HandleInResult(p)
    \/ \E X \in SUBSET out_paths : OutPathTimer(X)
    \/ FeedError
    \/ OnConfigureDone
    \/ PathTimersClosed
    \/ OnDeinitDone

Spec == Init /\ [][Next]_vars

\* The runloop of the extension keeps running, a path eventually expires, and the
\* extension calls on_configure_done() and on_deinit_done().  Nothing is assumed of
\* the destinations.
Fairness ==
    /\ WF_vars(FeedError)
    /\ WF_vars(OutPathTimer(out_paths))
    /\ WF_vars(OnConfigureDone)
    /\ WF_vars(OnDeinitDone)
    /\ \A p \in Path : WF_vars(HandleInResult(p))

FairSpec == Spec /\ Fairness
-----------------------------------------------------------------------------
(* Properties.                                                             *)

Result == [status : Status, is_final : BOOLEAN]
HandlerCall == [status : Status, dest : Nat, is_completed : BOOLEAN]

\* The values the variables range over; to_return[p] counts down from
\* MaxPartial[p] + 1.
TypeOK ==
    /\ state \in {"ON_CONFIGURE", "ON_INIT", "ON_DEINIT", "ON_DEINIT_DONE"}
    /\ sent \subseteq Cmd
    /\ out_paths \subseteq Path
    /\ has_received_final_cmd_result \subseteq Path
    /\ cached_cmd_result \in [Cmd -> [status : {"OK"}, dest : Nat] \union {NoResult}]
    /\ errored \subseteq Path
    /\ to_return \in [Path -> Nat]
    /\ \A p \in Path : to_return[p] <= MaxPartial[p] + 1
    /\ wire \in [Path -> Seq(Result)]
    /\ expired \subseteq Path
    /\ batch \subseteq Path
    /\ handled \in [Cmd -> Seq(HandlerCall)]

Completed(c) == \E i \in DOMAIN handled[c] : handled[c][i].is_completed

\* Nothing reaches a result handler after the result marked completed: the language
\* bindings free the handler with that result (ten_env.h), so a later call would use
\* freed memory.
NothingAfterCompleted ==
    \A c \in Cmd : \A i \in DOMAIN handled[c] :
        handled[c][i].is_completed => i = Len(handled[c])

\* A command has paths in the table exactly as long as its handler has not been given
\* a completed result: no path is left behind by a completed command, and no command
\* loses its last path without its handler being told.
CompletedIffGone ==
    \A c \in sent : Completed(c) <=> PathsOf(c) \intersect out_paths = {}

\* The members of a path group leave the table together.
GroupIsWhole ==
    \A c \in sent : Grouped(c) =>
        \/ PathsOf(c) \subseteq out_paths
        \/ PathsOf(c) \intersect out_paths = {}

\* What result_return_policy.h promises of FIRST_ERROR_OR_LAST_OK: an ERROR comes from
\* the only member that answered with one (or from the last member, when its OK breaks
\* the schema), and an OK means that every member answered finally and none with an
\* ERROR, and is the answer of the last destination in the graph.
FirstErrorOrLastOk ==
    \A c \in Cmd : Grouped(c) /\ Policy[c] = "FIRST_ERROR_OR_LAST_OK" =>
        /\ Len(handled[c]) <= 1
        /\ \A i \in DOMAIN handled[c] :
              LET call == handled[c][i]
                  errs == PathsOf(c) \intersect errored
              IN  \/ errs = {<<c, call.dest>>} /\ call.status = "ERROR"
                  \/ /\ errs = {}
                     /\ AllFinal(c, has_received_final_cmd_result)
                     /\ call.dest = NDest[c]
                     /\ call.status = ValidatedStatus(c, NDest[c], "OK")

\* ten_path_table_check_empty: once the flush of on_deinit_done() has run to its end
\* the table is empty, and it stays empty.
FlushedTableIsEmpty ==
    state = "ON_DEINIT_DONE" /\ batch = {} => out_paths = {}

\* The table holds what is still to be answered, all of it and nothing else, as the two
\* asserts of ten_path_table_check_empty() and the removal of whole groups rely on.
TableIsTidy == CompletedIffGone /\ GroupIsWhole /\ FlushedTableIsEmpty

\* Every command that was sent is eventually completed, by its destinations, by a
\* timeout or by the flush.
EveryCmdCompletes == \A c \in Cmd : c \in sent ~> Completed(c)

-----------------------------------------------------------------------------
(* The abstract promise that the table keeps.                              *)

Promise == INSTANCE CmdPromise WITH
    Cmd <- Cmd,
    stage <- [c \in Cmd |-> IF c \notin sent THEN "unsent"
                            ELSE IF PathsOf(c) \intersect out_paths = {} THEN "completed"
                            ELSE "open"],
    calls <- [c \in Cmd |-> Len(handled[c])]

\* Every behaviour of the table keeps the promise made of each command on its own.
KeepsPromise == Promise!Spec
=============================================================================
