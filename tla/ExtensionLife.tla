---------------------------- MODULE ExtensionLife ----------------------------
(***************************************************************************)
(* What the runtime promises to an extension: its life-cycle callbacks     *)
(* come in order and one at a time, the next one only after the extension  *)
(* has called on_xxx_done for the last.  The extension may be stopped      *)
(* instead of being initialised or started, but it is never started once   *)
(* it has been told to stop, and it is deleted only after on_deinit_done.  *)
(***************************************************************************)
CONSTANT Extension

VARIABLES
    last,       \* per extension: the last callback called, or none
    owes,       \* the extensions that have not called its on_xxx_done
    gone        \* the extensions that are deleted

life == <<last, owes, gone>>

Follows(callback) ==
    CASE callback = "none"         -> {"on_configure"}
      [] callback = "on_configure" -> {"on_init", "on_stop"}
      [] callback = "on_init"      -> {"on_start", "on_stop"}
      [] callback = "on_start"     -> {"on_stop"}
      [] callback = "on_stop"      -> {"on_deinit"}
      [] callback = "on_deinit"    -> {}

Init ==
    /\ last = [x \in Extension |-> "none"]
    /\ owes = {}
    /\ gone = {}

Call(x) ==
    /\ x \notin owes
    /\ last'[x] \in Follows(last[x])
    /\ x \in owes'
    /\ x \notin gone'

Done(x) ==
    /\ x \in owes
    /\ x \notin owes'
    /\ last'[x] = last[x]
    /\ x \notin gone'

\* on_xxx_done makes the runtime call on_stop or on_deinit at once.
DoneAndCall(x) ==
    /\ x \in owes
    /\ x \in owes'
    /\ last'[x] \in Follows(last[x]) \intersect {"on_stop", "on_deinit"}
    /\ x \notin gone'

Delete(x) ==
    /\ last[x] = "on_deinit" /\ last'[x] = last[x]
    /\ x \notin owes /\ x \notin owes'
    /\ x \in gone'

Stays(x) ==
    /\ last'[x] = last[x]
    /\ x \in owes <=> x \in owes'
    /\ x \in gone <=> x \in gone'

\* Several extensions may step at once, each of them on its own.
Next ==
    \A x \in Extension :
        \/ Stays(x)
        \/ x \notin gone /\ (Call(x) \/ Done(x) \/ DoneAndCall(x) \/ Delete(x))

Spec == Init /\ [][Next]_life
=============================================================================
