----------------------------- MODULE CmdPromise -----------------------------
(***************************************************************************)
(* What the runtime promises to an extension about the commands it sends,  *)
(* whatever the destinations do: a command is open from its sending to its *)
(* completion, its result handler is called only while it is open, and     *)
(* the call that completes it is the last one.                             *)
(***************************************************************************)
EXTENDS Naturals

CONSTANT Cmd

VARIABLES
    stage,      \* per command: unsent, open, completed
    calls       \* per command: how often its result handler was called

vars == <<stage, calls>>

Init ==
    /\ stage = [c \in Cmd |-> "unsent"]
    /\ calls = [c \in Cmd |-> 0]

Send(c) ==
    /\ stage[c] = "unsent"
    /\ stage' = [stage EXCEPT ![c] = "open"]
    /\ UNCHANGED calls

\* A result that does not complete the command.
Deliver(c) ==
    /\ stage[c] = "open"
    /\ calls' = [calls EXCEPT ![c] = @ + 1]
    /\ UNCHANGED stage

\* The result that does.
Complete(c) ==
    /\ stage[c] = "open"
    /\ stage' = [stage EXCEPT ![c] = "completed"]
    /\ calls' = [calls EXCEPT ![c] = @ + 1]

Next == \E c \in Cmd : Send(c) \/ Deliver(c) \/ Complete(c)

Spec == Init /\ [][Next]_vars
=============================================================================
